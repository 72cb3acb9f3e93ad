-------------------------- MODULE AgentSession_proofs --------------------------
(***************************************************************************)
(* Proofs about AgentSession, for any number of queries, conversations,    *)
(* clusters and tools and for any guardrail configuration.                 *)
(***************************************************************************)
EXTENDS AgentSession, SequenceTheorems, FiniteSetTheorems, TLAPS

(* A loop in the middle of a response has a call in hand. *)
InCall(a) == at[a] \in {"checking", "asking", "waiting", "executing"}

LoopShape ==
  \A a \in Agents :
    /\ at[a] # "unused" => sid[a] \in Sessions
    /\ Len(todo[a]) <= MaxCalls
    /\ InCall(a) =>
         todo[a] # <<>> /\ iter[a] \in 1..MaxIterations /\ tokens[a] \in TokenCounts

TypeInv == TypeOK /\ LoopShape

(* What was let through stays let through until it runs. *)
VerdictStands ==
  \A a \in Agents :
    at[a] \in {"asking", "waiting", "executing"} =>
      ~PolicyBlocks(Head(todo[a]).tool, Head(todo[a]).ns, checkedFor[a])

(* Somebody approved a card of session s with tool call id i. *)
ApprovedIn(s, i) == \E c \in approved : c.session = s /\ c.id = i

(* A decision under way is in the channel of an agent that was started; an  *)
(* approval answers a card of that agent's session.                         *)
ChannelsFlow ==
  \A a \in Agents : ch[a] # NoMsg =>
    at[a] # "unused" /\ (ch[a].approve => ApprovedIn(sid[a], ch[a].id))

(* An agent waits on an object of its own session, its own or another's. *)
WaitsFlow ==
  \A a \in Agents : at[a] = "waiting" =>
    waitOn[a] \in Agents /\ at[waitOn[a]] # "unused" /\ sid[waitOn[a]] = sid[a]

(* A call that needs approval and runs has it. *)
RunsFlow ==
  \A a \in Agents : at[a] = "executing" /\ NeedsApproval(Head(todo[a]).tool) =>
    ApprovedIn(sid[a], CallId(a))

ApprovalsFlow == ChannelsFlow /\ WaitsFlow /\ RunsFlow

(* What took effect was run by a query that was started. *)
ExecutedByStarted ==
  \A e \in executed : at[e.inv.agent] # "unused"

IInv ==
  /\ TypeInv /\ RegistryHoldsLive /\ VerdictStands /\ ApprovalsFlow
  /\ ExecutedByStarted /\ ApprovedById /\ GuardedExecution

(* The window holds every call that is still recent, so that counting it    *)
(* is counting them.                                                        *)
WindowInv ==
  \A a \in Agents :
    /\ callCount[a] = Len(passedAt[a])
    /\ windowCalls[a] \subseteq 1..Len(passedAt[a])
    /\ \A i \in 1..Len(passedAt[a]) :
         /\ passedAt[a][i] <= now
         /\ passedAt[a][i] + Window > now => i \in windowCalls[a]

-----------------------------------------------------------------------------
(* A function on 1..n is a sequence of length n. *)
LEMMA FunctionIsSeq ==
  ASSUME NEW S, NEW n \in Nat, NEW f \in [1..n -> S]
  PROVE  f \in Seq(S) /\ Len(f) = n
OBVIOUS

(* A call in hand is a call, and names the records the other parts keep. *)
LEMMA CallInHand ==
  ASSUME TypeInv, NEW a \in Agents, InCall(a)
  PROVE  /\ Head(todo[a]) \in Calls
         /\ Len(todo[a]) \in 1..MaxCalls
         /\ Tail(todo[a]) \in Seq(Calls)
         /\ Len(Tail(todo[a])) = Len(todo[a]) - 1
         /\ CallId(a) \in Ids
         /\ Invocation(a) \in Invocations
         /\ sid[a] \in Sessions
<1>1. todo[a] \in Seq(Calls) /\ todo[a] # <<>> /\ Len(todo[a]) <= MaxCalls
  BY DEF TypeInv, TypeOK, LoopShape
<1>2. /\ Head(todo[a]) \in Calls
      /\ Len(todo[a]) \in 1..MaxCalls
      /\ Tail(todo[a]) \in Seq(Calls)
      /\ Len(Tail(todo[a])) = Len(todo[a]) - 1
  BY <1>1, AgentSessionAssumption
<1>3. iter[a] \in 1..MaxIterations /\ tokens[a] \in TokenCounts /\ sid[a] \in Sessions
  BY DEF TypeInv, LoopShape, InCall
<1>4. Head(todo[a]).tool \in Tools
  BY <1>2 DEF Calls
<1> QED BY <1>2, <1>3, <1>4 DEF CallId, Ids, Invocation, Invocations

(* The variables of the loop keep their types and shape when a call is      *)
(* dealt with.                                                              *)
LoopTypeOK ==
  /\ at \in [Agents -> Steps]
  /\ sid \in [Agents -> Sessions \cup {NoSession}]
  /\ checkedFor \in [Agents -> Clusters]
  /\ iter \in [Agents -> 0..MaxIterations]
  /\ tokens \in [Agents -> TokenCounts \cup {0}]
  /\ todo \in [Agents -> Seq(Calls)]
  /\ LoopShape

(* The step to the next call, or to the next iteration after the last one, *)
(* keeps them.                                                              *)
LEMMA NextCallShape ==
  ASSUME TypeInv, NEW a \in Agents, InCall(a), NextCall(a)
  PROVE  LoopTypeOK'
<1>1. /\ Tail(todo[a]) \in Seq(Calls) /\ Len(todo[a]) \in 1..MaxCalls
      /\ Len(Tail(todo[a])) = Len(todo[a]) - 1
      /\ sid[a] \in Sessions
  BY CallInHand
<1>2. todo' \in [Agents -> Seq(Calls)] /\ at' \in [Agents -> Steps]
  BY <1>1 DEF NextCall, TypeInv, TypeOK, Steps
<1>3. LoopShape'
  <2> SUFFICES ASSUME NEW b \in Agents
               PROVE  /\ at'[b] # "unused" => sid'[b] \in Sessions
                      /\ Len(todo'[b]) <= MaxCalls
                      /\ InCall(b)' => /\ todo'[b] # <<>>
                                       /\ iter'[b] \in 1..MaxIterations
                                       /\ tokens'[b] \in TokenCounts
    BY DEF LoopShape
  <2>1. CASE b = a
    <3>1. todo'[a] = Tail(todo[a])
      BY DEF NextCall, TypeInv, TypeOK
    <3>2. at'[a] = IF Len(todo[a]) = 1 THEN "thinking" ELSE "checking"
      BY DEF NextCall, TypeInv, TypeOK
    <3>3. ASSUME InCall(a)' PROVE todo'[a] # <<>>
      <4>1. Len(todo[a]) # 1
        BY <3>2, <3>3 DEF InCall
      <4>2. Len(Tail(todo[a])) # 0
        BY <1>1, <4>1
      <4> QED BY <1>1, <3>1, <4>2, EmptySeq
    <3>4. iter[a] \in 1..MaxIterations /\ tokens[a] \in TokenCounts
      BY DEF TypeInv, LoopShape, InCall
    <3>5. Len(todo'[a]) <= MaxCalls
      BY <1>1, <3>1, AgentSessionAssumption
    <3> QED BY <1>1, <2>1, <3>3, <3>4, <3>5 DEF NextCall
  <2>2. CASE b # a
    BY <2>2 DEF NextCall, TypeInv, TypeOK, LoopShape, InCall
  <2> QED BY <2>1, <2>2
<1> QED BY <1>2, <1>3 DEF LoopTypeOK, NextCall, TypeInv, TypeOK

(* The guardrails keep their own variables in type. *)
LEMMA CheckToolType ==
  ASSUME GuardTypeOK, NEW a \in Agents, NEW tool, NEW ns, NEW cl, NEW tk, UNCHANGED now
  PROVE  /\ CheckToolBlocks(a, tool, ns, cl, tk) => GuardTypeOK'
         /\ CheckToolPasses(a, tool, ns, cl, tk) => GuardTypeOK'
<1>1. Recent(a) \in SUBSET Nat
  BY DEF Recent, GuardTypeOK
<1>2. ASSUME CheckToolBlocks(a, tool, ns, cl, tk) PROVE GuardTypeOK'
  BY <1>1, <1>2 DEF CheckToolBlocks, GuardTypeOK
<1>3. ASSUME CheckToolPasses(a, tool, ns, cl, tk) PROVE GuardTypeOK'
  <2>1. Append(passedAt[a], now) \in Seq(Times) /\ Len(passedAt[a]) + 1 \in Nat
    BY DEF GuardTypeOK
  <2> QED BY <1>1, <1>3, <2>1 DEF CheckToolPasses, GuardTypeOK
<1> QED BY <1>2, <1>3

(* Nothing runs at the start: every agent is unused. *)
LEMMA InitTypeInv == Init => TypeInv
<1> SUFFICES ASSUME Init PROVE TypeInv
  OBVIOUS
<1>1. GuardTypeOK
  BY GuardrailsAssumption DEF Init, GuardInit, GuardTypeOK, Times
<1>2. TypeOK
  <2>1. at \in [Agents -> Steps]
    BY DEF Init, Steps
  <2>2. todo \in [Agents -> Seq(Calls)]
    BY EmptySeq DEF Init
  <2>3. /\ checkedFor \in [Agents -> Clusters] /\ cluster \in Clusters
        /\ iter \in [Agents -> 0..MaxIterations]
        /\ tokens \in [Agents -> TokenCounts \cup {0}]
    BY AgentSessionAssumption DEF Init
  <2> QED BY <1>1, <2>1, <2>2, <2>3 DEF Init, TypeOK
<1>3. LoopShape
  BY AgentSessionAssumption, EmptySeq DEF Init, LoopShape, InCall
<1> QED BY <1>2, <1>3 DEF TypeInv

(* Every step of the loop, of the view and of the environment keeps the     *)
(* types and the shape of the loop.                                         *)
LEMMA NextTypeInv == TypeInv /\ [Next]_vars => TypeInv'
<1> SUFFICES ASSUME TypeInv, [Next]_vars PROVE TypeInv'
  OBVIOUS
<1> USE DEF TypeInv
<1>1. ASSUME NEW a \in Agents, NEW s \in Sessions, StartQuery(a, s) PROVE TypeInv'
  BY <1>1 DEF StartQuery, TypeOK, GuardTypeOK, guardVars, LoopShape, InCall, Steps
<1>2. ASSUME NEW a \in Agents, Think(a) PROVE TypeInv'
  <2>1. PICK n \in 1..MaxCalls : \E calls \in [1..n -> Calls] :
          todo' = [todo EXCEPT ![a] = calls]
    BY <1>2 DEF Think
  <2>2. PICK calls \in [1..n -> Calls] : todo' = [todo EXCEPT ![a] = calls]
    BY <2>1
  <2>3. n \in Nat /\ n <= MaxCalls /\ n # 0
    BY AgentSessionAssumption
  <2>4. calls \in Seq(Calls) /\ Len(calls) = n /\ calls # <<>>
    <3>1. calls \in Seq(Calls) /\ Len(calls) = n
      BY <2>3, FunctionIsSeq
    <3> QED BY <2>3, <3>1, EmptySeq
  <2>5. PICK t \in TokenCounts : tokens' = [tokens EXCEPT ![a] = t]
    BY <1>2 DEF Think
  <2>6. iter[a] + 1 \in 1..MaxIterations
    BY <1>2, AgentSessionAssumption DEF Think, IterationsLeft, TypeOK
  <2>7. TypeOK'
    BY <1>2, <2>2, <2>4, <2>5, <2>6
    DEF Think, TypeOK, GuardTypeOK, guardVars, uiVars, Steps
  <2>8. LoopShape'
    BY <1>2, <2>2, <2>3, <2>4, <2>5, <2>6 DEF Think, TypeOK, LoopShape, InCall
  <2> QED BY <2>7, <2>8
<1>3. ASSUME NEW a \in Agents, Return(a) PROVE TypeInv'
  BY <1>3 DEF Return, TypeOK, GuardTypeOK, guardVars, LoopShape, InCall, Steps
<1>4. ASSUME NEW a \in Agents, Cleanup(a) PROVE TypeInv'
  BY <1>4 DEF Cleanup, TypeOK, GuardTypeOK, guardVars, uiVars, LoopShape, InCall, Steps
<1>5. ASSUME NEW a \in Agents, Check(a) PROVE TypeInv'
  <2> DEFINE call == Head(todo[a])
             card == [inv |-> Invocation(a), session |-> sid[a], id |-> CallId(a)]
  <2>1. InCall(a)
    BY <1>5 DEF Check, InCall
  <2>2. card \in Cards
    BY <2>1, CallInHand DEF Cards
  <2>3. \/ /\ CheckToolBlocks(a, call.tool, call.ns, checkedFor[a], tokens[a])
           /\ NextCall(a) /\ UNCHANGED cards
        \/ /\ CheckToolPasses(a, call.tool, call.ns, checkedFor[a], tokens[a])
           /\ \/ at' = [at EXCEPT ![a] = "asking"] /\ cards' = cards \cup {card}
              \/ at' = [at EXCEPT ![a] = "executing"] /\ UNCHANGED cards
           /\ UNCHANGED <<sid, checkedFor, iter, tokens, todo>>
    BY <1>5 DEF Check
  <2>4. GuardTypeOK'
    <3>1. GuardTypeOK /\ UNCHANGED now
      BY <1>5 DEF Check, TypeOK
    <3> QED BY <2>3, <3>1, CheckToolType
  <2>5. LoopTypeOK'
    <3>1. CASE NextCall(a)
      BY <2>1, <3>1, NextCallShape
    <3>2. CASE /\ \/ at' = [at EXCEPT ![a] = "asking"]
                  \/ at' = [at EXCEPT ![a] = "executing"]
               /\ UNCHANGED <<sid, checkedFor, iter, tokens, todo>>
      BY <2>1, <3>2 DEF LoopTypeOK, LoopShape, InCall, TypeOK, Steps
    <3> QED BY <2>3, <3>1, <3>2
  <2>6. cards' \subseteq Cards
    BY <2>2, <2>3 DEF TypeOK
  <2> QED BY <1>5, <2>4, <2>5, <2>6 DEF Check, TypeOK, LoopTypeOK
<1>6. ASSUME NEW a \in Agents, RequestApproval(a) PROVE TypeInv'
  <2>1. InCall(a)
    BY <1>6 DEF RequestApproval, InCall
  <2>2. LoopTypeOK'
    <3>1. CASE NextCall(a)
      BY <2>1, <3>1, NextCallShape
    <3>2. CASE /\ at' = [at EXCEPT ![a] = "waiting"]
               /\ UNCHANGED <<sid, checkedFor, iter, tokens, todo>>
      BY <2>1, <3>2 DEF LoopTypeOK, LoopShape, InCall, TypeOK, Steps
    <3> QED BY <1>6, <3>1, <3>2 DEF RequestApproval
  <2>3. waitOn' \in [Agents -> Agents \cup {NoAgent}]
    <3>1. registry[sid[a]] \in Agents \cup {NoAgent}
      BY <2>1, CallInHand DEF TypeOK
    <3> QED BY <1>6, <3>1 DEF RequestApproval, TypeOK
  <2> QED BY <1>6, <2>2, <2>3
          DEF RequestApproval, TypeOK, GuardTypeOK, guardVars, uiVars, LoopTypeOK
<1>7. ASSUME NEW a \in Agents, Receive(a) PROVE TypeInv'
  <2>1. InCall(a)
    BY <1>7 DEF Receive, InCall
  <2>2. LoopTypeOK'
    <3>1. CASE NextCall(a)
      BY <2>1, <3>1, NextCallShape
    <3>2. CASE /\ at' = [at EXCEPT ![a] = "executing"]
               /\ UNCHANGED <<sid, checkedFor, iter, tokens, todo>>
      BY <2>1, <3>2 DEF LoopTypeOK, LoopShape, InCall, TypeOK, Steps
    <3> QED BY <1>7, <3>1, <3>2 DEF Receive
  <2>3. /\ waitOn' \in [Agents -> Agents \cup {NoAgent}]
        /\ ch' \in [Agents -> Messages \cup {NoMsg}]
    BY <1>7 DEF Receive, TypeOK
  <2> QED BY <1>7, <2>2, <2>3
          DEF Receive, TypeOK, GuardTypeOK, guardVars, uiVars, LoopTypeOK
<1>8. ASSUME NEW a \in Agents, Abandon(a) PROVE TypeInv'
  <2>1. InCall(a) /\ NextCall(a)
    BY <1>8 DEF Abandon, InCall
  <2>2. LoopTypeOK'
    BY <2>1, NextCallShape
  <2>3. waitOn' \in [Agents -> Agents \cup {NoAgent}]
    BY <1>8 DEF Abandon, TypeOK
  <2> QED BY <1>8, <2>2, <2>3
          DEF Abandon, TypeOK, GuardTypeOK, guardVars, uiVars, LoopTypeOK
<1>9. ASSUME NEW a \in Agents, Execute(a) PROVE TypeInv'
  <2>1. InCall(a) /\ NextCall(a)
    BY <1>9 DEF Execute, InCall
  <2>2. LoopTypeOK'
    BY <2>1, NextCallShape
  <2>3. executed' \subseteq [inv : Invocations, call : Calls, on : Clusters,
                             session : Sessions, id : Ids]
    BY <1>9, <2>1, CallInHand DEF Execute, TypeOK
  <2> QED BY <1>9, <2>2, <2>3
          DEF Execute, TypeOK, GuardTypeOK, guardVars, uiVars, LoopTypeOK
<1>10. ASSUME NEW card \in cards \cup answered, Dismiss(card) PROVE TypeInv'
  BY <1>10 DEF Dismiss, TypeOK, GuardTypeOK, guardVars, loopVars, LoopShape, InCall
<1>11. ASSUME NEW card \in cards \cup answered, NEW b \in BOOLEAN, Decide(card, b)
       PROVE  TypeInv'
  <2>1. card \in Cards /\ [id |-> card.id, approve |-> b] \in Messages
    BY DEF TypeOK, Cards, Messages
  <2> QED BY <1>11, <2>1
          DEF Decide, TypeOK, GuardTypeOK, guardVars, loopVars, LoopShape, InCall
<1>12. ASSUME NEW s \in StopIds, Stop(s) PROVE TypeInv'
  BY <1>12 DEF Stop, TypeOK, GuardTypeOK, guardVars, loopVars, LoopShape, InCall
<1>13. ASSUME NEW x \in Clusters, SwitchCluster(x) PROVE TypeInv'
  BY <1>13 DEF SwitchCluster, TypeOK, GuardTypeOK, guardVars, loopVars, uiVars, LoopShape,
               InCall
<1>14. CASE Wait
  BY <1>14, GuardrailsAssumption
  DEF Wait, Tick, Times, TypeOK, GuardTypeOK, guardVars, loopVars, uiVars, LoopShape, InCall
<1>15. CASE UNCHANGED vars
  BY <1>15 DEF vars, TypeOK, GuardTypeOK, guardVars, loopVars, uiVars, LoopShape, InCall
<1> QED BY <1>1, <1>2, <1>3, <1>4, <1>5, <1>6, <1>7, <1>8, <1>9, <1>10, <1>11, <1>12,
           <1>13, <1>14, <1>15 DEF Next, Loop

(* Every reachable state of the agents, the registry, the channels and the  *)
(* view is well typed.                                                      *)
THEOREM TypeCorrect == Spec => []TypeOK
<1>1. Spec => []TypeInv
  BY InitTypeInv, NextTypeInv, PTL DEF Spec
<1> QED BY <1>1, PTL DEF TypeInv

-----------------------------------------------------------------------------
(* Queries start and end in two actions; every other step leaves the        *)
(* registry, the session ids and the checked clusters alone.                *)
Steady ==
  /\ UNCHANGED <<registry, sid, checkedFor>>
  /\ \A a \in Agents : \A end \in {"unused", "ended"} : at'[a] = end <=> at[a] = end

(* Each action is one of the three. *)
LEMMA StartOrEndOrSteady ==
  ASSUME TypeInv, [Next]_vars
  PROVE  \/ \E a \in Agents, s \in Sessions : StartQuery(a, s)
         \/ \E a \in Agents : Cleanup(a)
         \/ Steady
<1>1. ASSUME NEW a \in Agents, Return(a) \/ Think(a) PROVE Steady
  BY <1>1 DEF TypeInv, TypeOK, Return, Think, Steady
<1>2. ASSUME NEW a \in Agents, Check(a) PROVE Steady
  BY <1>2 DEF TypeInv, TypeOK, Check, NextCall, Steady
<1>3. ASSUME NEW a \in Agents, RequestApproval(a) \/ Receive(a) PROVE Steady
  BY <1>3 DEF TypeInv, TypeOK, RequestApproval, Receive, NextCall, Steady
<1>4. ASSUME NEW a \in Agents, Abandon(a) \/ Execute(a) PROVE Steady
  BY <1>4 DEF TypeInv, TypeOK, Abandon, Execute, NextCall, Steady
<1>5. ASSUME NEW card, NEW b, Dismiss(card) \/ Decide(card, b) PROVE Steady
  BY <1>5 DEF Dismiss, Decide, loopVars, Steady
<1>6. ASSUME NEW x, Stop(x) \/ SwitchCluster(x) PROVE Steady
  BY <1>6 DEF Stop, SwitchCluster, loopVars, Steady
<1>7. CASE Wait \/ UNCHANGED vars
  BY <1>7 DEF Wait, vars, loopVars, Steady
<1> QED BY <1>1, <1>2, <1>3, <1>4, <1>5, <1>6, <1>7 DEF Next, Loop

(* An entry is written by its own agent's start; the only other write       *)
(* removes the entry of the conversation that ended.                        *)
LEMMA RegistryStep ==
  ASSUME TypeInv, RegistryHoldsLive, [Next]_vars
  PROVE  RegistryHoldsLive'
<1>1. ASSUME NEW a \in Agents, NEW s \in Sessions, StartQuery(a, s)
      PROVE  RegistryHoldsLive'
  BY <1>1 DEF StartQuery, TypeInv, TypeOK, RegistryHoldsLive
<1>2. ASSUME NEW a \in Agents, Cleanup(a) PROVE RegistryHoldsLive'
  BY <1>2 DEF Cleanup, TypeInv, TypeOK, RegistryHoldsLive
<1>3. CASE Steady
  BY <1>3 DEF Steady, TypeInv, TypeOK, RegistryHoldsLive
<1> QED BY <1>1, <1>2, <1>3, StartOrEndOrSteady

(* Only Check moves a call past the guardrails, and the call in hand does   *)
(* not change before it has run or has been given up.                       *)
LEMMA VerdictStep ==
  ASSUME TypeInv, VerdictStands, [Next]_vars
  PROVE  VerdictStands'
<1>1. ASSUME NEW a \in Agents, NEW s \in Sessions, StartQuery(a, s) PROVE VerdictStands'
  BY <1>1 DEF StartQuery, TypeInv, TypeOK, VerdictStands, PolicyBlocks, CheckedNamespace
<1>2. ASSUME NEW a \in Agents, Return(a) \/ Think(a) \/ Cleanup(a) PROVE VerdictStands'
  BY <1>2, ZenonT(60)
  DEF Return, Think, Cleanup, TypeInv, TypeOK, VerdictStands, PolicyBlocks, CheckedNamespace
<1>3. ASSUME NEW a \in Agents, NextCall(a) PROVE VerdictStands'
  BY <1>3 DEF NextCall, TypeInv, TypeOK, VerdictStands, PolicyBlocks, CheckedNamespace
<1>4. ASSUME NEW a \in Agents, UNCHANGED <<checkedFor, todo>>,
             NEW p \in Steps, at' = [at EXCEPT ![a] = p],
             ~PolicyBlocks(Head(todo[a]).tool, Head(todo[a]).ns, checkedFor[a])
      PROVE  VerdictStands'
  BY <1>4 DEF TypeInv, TypeOK, VerdictStands, PolicyBlocks, CheckedNamespace
<1>5. ASSUME NEW a \in Agents, Check(a) PROVE VerdictStands'
  BY <1>3, <1>4, <1>5 DEF Check, CheckToolPasses, Steps
<1>6. ASSUME NEW a \in Agents, RequestApproval(a) PROVE VerdictStands'
  BY <1>3, <1>4, <1>6 DEF RequestApproval, VerdictStands, Steps
<1>7. ASSUME NEW a \in Agents, Receive(a) PROVE VerdictStands'
  BY <1>3, <1>4, <1>7 DEF Receive, VerdictStands, Steps
<1>8. ASSUME NEW a \in Agents, Abandon(a) \/ Execute(a) PROVE VerdictStands'
  BY <1>3, <1>8 DEF Abandon, Execute
<1>9. CASE UNCHANGED loopVars
  BY <1>9 DEF loopVars, VerdictStands, PolicyBlocks, CheckedNamespace
<1> QED BY <1>1, <1>2, <1>5, <1>6, <1>7, <1>8, <1>9
        DEF Next, Loop, Dismiss, Decide, Stop, SwitchCluster, Wait, vars

(* An agent that was started stays so, under its session id. *)
LEMMA StartOrStillUsed ==
  ASSUME TypeInv, [Next]_vars
  PROVE  \/ \E a \in Agents, s \in Sessions : StartQuery(a, s)
         \/ UNCHANGED sid /\ \A a \in Agents : at[a] # "unused" => at'[a] # "unused"
<1>1. ASSUME NEW a \in Agents, Cleanup(a)
      PROVE  UNCHANGED sid /\ \A b \in Agents : at[b] # "unused" => at'[b] # "unused"
  BY <1>1 DEF Cleanup, TypeInv, TypeOK
<1> QED BY <1>1, StartOrEndOrSteady DEF Steady

(* What was approved is not forgotten. *)
LEMMA ApprovedGrows == [Next]_vars => approved \subseteq approved'
BY DEF Next, Loop, StartQuery, Return, Think, Check, RequestApproval, Receive, Abandon,
       Execute, Cleanup, Dismiss, Decide, Stop, SwitchCluster, Wait, uiVars, vars

(* A decision reaches only the channel of a live agent of the card's        *)
(* session.                                                                 *)
LEMMA ChannelsStep ==
  ASSUME TypeInv, RegistryHoldsLive, ChannelsFlow, [Next]_vars
  PROVE  ChannelsFlow'
<1> USE DEF ApprovedIn
<1>1. ASSUME NEW a \in Agents, NEW s \in Sessions, StartQuery(a, s) PROVE ChannelsFlow'
  BY <1>1 DEF StartQuery, TypeInv, TypeOK, ChannelsFlow
<1>2. ASSUME NEW card \in cards \cup answered, NEW b \in BOOLEAN, Decide(card, b)
      PROVE  ChannelsFlow'
  <2> DEFINE sess == registry[card.session]
  <2>1. card.session \in Sessions
    BY DEF TypeInv, TypeOK, Cards
  <2>2. sess \in Agents /\ at[sess] # "unused" /\ sid[sess] = card.session
    BY <1>2, <2>1 DEF Decide, RegistryHoldsLive, TypeInv, TypeOK
  <2>3. approved \subseteq approved' /\ (b => card \in approved') /\ UNCHANGED <<at, sid>>
    BY <1>2 DEF Decide, loopVars
  <2>4. ch' = [ch EXCEPT ![sess] = [id |-> card.id, approve |-> b]]
    BY <1>2 DEF Decide
  <2> QED BY <2>2, <2>3, <2>4 DEF TypeInv, TypeOK, ChannelsFlow
<1>3. ASSUME \/ UNCHANGED ch
             \/ \E a \in Agents : Receive(a),
             UNCHANGED sid, \A a \in Agents : at[a] # "unused" => at'[a] # "unused"
      PROVE  ChannelsFlow'
  <2>1. \A a \in Agents : ch'[a] = ch[a] \/ ch'[a] = NoMsg
    BY <1>3 DEF Receive, TypeInv, TypeOK
  <2> QED BY <1>3, <2>1, ApprovedGrows DEF ChannelsFlow
<1>4. \/ UNCHANGED ch
      \/ \E a \in Agents : Receive(a)
      \/ \E card \in cards \cup answered, b \in BOOLEAN : Decide(card, b)
  BY DEF Next, Loop, StartQuery, Return, Think, Check, RequestApproval, Abandon, Execute,
         Cleanup, Dismiss, Stop, SwitchCluster, Wait, vars
<1> QED BY <1>1, <1>2, <1>3, <1>4, StartOrStillUsed

(* RequestApproval finds an object registered under the agent's own id. *)
LEMMA WaitsStep ==
  ASSUME TypeInv, RegistryHoldsLive, WaitsFlow, [Next]_vars
  PROVE  WaitsFlow'
<1>1. ASSUME NEW a \in Agents, NEW s \in Sessions, StartQuery(a, s) PROVE WaitsFlow'
  BY <1>1 DEF StartQuery, TypeInv, TypeOK, WaitsFlow
<1>2. ASSUME UNCHANGED sid, \A a \in Agents : at[a] # "unused" => at'[a] # "unused",
             \A a \in Agents : at'[a] = "waiting" =>
               \/ at[a] = "waiting" /\ waitOn'[a] = waitOn[a]
               \/ /\ waitOn'[a] = registry[sid[a]] /\ registry[sid[a]] # NoAgent
                  /\ sid[a] \in Sessions
      PROVE  WaitsFlow'
  <2>1. ASSUME NEW a \in Agents, at'[a] = "waiting"
        PROVE  /\ waitOn'[a] \in Agents /\ at[waitOn'[a]] # "unused"
               /\ sid[waitOn'[a]] = sid[a]
    <3>1. CASE at[a] = "waiting" /\ waitOn'[a] = waitOn[a]
      BY <3>1 DEF WaitsFlow
    <3>2. CASE /\ waitOn'[a] = registry[sid[a]] /\ registry[sid[a]] # NoAgent
               /\ sid[a] \in Sessions
      BY <3>2 DEF RegistryHoldsLive, TypeInv, TypeOK
    <3> QED BY <1>2, <2>1, <3>1, <3>2
  <2> QED BY <1>2, <2>1 DEF WaitsFlow
<1>3. ASSUME UNCHANGED sid, NEW b \in Agents, at'[b] = "waiting"
      PROVE  \/ at[b] = "waiting" /\ waitOn'[b] = waitOn[b]
             \/ /\ waitOn'[b] = registry[sid[b]] /\ registry[sid[b]] # NoAgent
                /\ sid[b] \in Sessions
  <2> DEFINE Waits == at[b] = "waiting" /\ waitOn'[b] = waitOn[b]
  <2>1. ASSUME NEW a \in Agents, RequestApproval(a)
        PROVE  \/ Waits
               \/ /\ waitOn'[b] = registry[sid[b]] /\ registry[sid[b]] # NoAgent
                  /\ sid[b] \in Sessions
    <3>1. a # b => Waits
      BY <1>3, <2>1 DEF RequestApproval, NextCall, TypeInv, TypeOK
    <3>2. sid[a] \in Sessions
      BY <2>1, CallInHand DEF RequestApproval, InCall
    <3> QED BY <1>3, <2>1, <3>1, <3>2 DEF RequestApproval, NextCall, TypeInv, TypeOK
  <2>2. ASSUME NEW a \in Agents, Receive(a) \/ Abandon(a) PROVE Waits
    BY <1>3, <2>2 DEF Receive, Abandon, NextCall, TypeInv, TypeOK
  <2>3. ASSUME NEW a \in Agents,
               Return(a) \/ Think(a) \/ Cleanup(a) \/ Check(a) \/ Execute(a)
        PROVE  Waits
    BY <1>3, <2>3 DEF Return, Think, Cleanup, Check, Execute, NextCall, TypeInv, TypeOK
  <2>4. ASSUME NEW a \in Agents, NEW s \in Sessions, StartQuery(a, s) PROVE Waits
    BY <1>3, <2>4 DEF StartQuery, TypeInv, TypeOK
  <2>5. CASE UNCHANGED loopVars
    BY <1>3, <2>5 DEF loopVars
  <2> QED BY <2>1, <2>2, <2>3, <2>4, <2>5
          DEF Next, Loop, Dismiss, Decide, Stop, SwitchCluster, Wait, vars
<1> QED BY <1>1, <1>2, <1>3, StartOrStillUsed

(* A message opens the way only for the call whose id it names. *)
LEMMA RunsStep ==
  ASSUME TypeInv, ChannelsFlow, WaitsFlow, RunsFlow, [Next]_vars
  PROVE  RunsFlow'
<1>1. ASSUME NEW a \in Agents, at'[a] = "executing",
             UNCHANGED <<sid[a], iter[a], tokens[a], todo[a]>>,
             NeedsApproval(Head(todo[a]).tool) => ApprovedIn(sid[a], CallId(a))
      PROVE  NeedsApproval(Head(todo'[a]).tool) => ApprovedIn(sid[a], CallId(a))'
  BY <1>1, ApprovedGrows DEF ApprovedIn, CallId
<1>2. ASSUME NEW b \in Agents, at'[b] = "executing"
      PROVE  /\ UNCHANGED <<sid[b], iter[b], tokens[b], todo[b]>>
             /\ NeedsApproval(Head(todo[b]).tool) => ApprovedIn(sid[b], CallId(b))
  <2> DEFINE Runs == at[b] = "executing" /\ UNCHANGED <<sid[b], iter[b], tokens[b], todo[b]>>
  <2>1. ASSUME NEW a \in Agents, Check(a)
        PROVE  \/ Runs
               \/ ~NeedsApproval(Head(todo[b]).tool) /\ UNCHANGED <<sid, iter, tokens, todo>>
    BY <1>2, <2>1 DEF Check, NextCall, TypeInv, TypeOK
  <2>2. ASSUME NEW a \in Agents, Receive(a)
        PROVE  \/ Runs
               \/ /\ ApprovedIn(sid[b], CallId(b))
                  /\ UNCHANGED <<sid, iter, tokens, todo>>
    <3>1. CASE NextCall(a)
      BY <1>2, <2>2, <3>1 DEF Receive, NextCall, TypeInv, TypeOK
    <3>2. CASE /\ Grants(a, ch[waitOn[a]])
               /\ at' = [at EXCEPT ![a] = "executing"]
               /\ UNCHANGED <<sid, checkedFor, iter, tokens, todo>>
      <4>1. ApprovedIn(sid[a], CallId(a))
        BY <2>2, <3>2 DEF Receive, Grants, ChannelsFlow, WaitsFlow
      <4> QED BY <1>2, <3>2, <4>1 DEF TypeInv, TypeOK
    <3> QED BY <2>2, <3>1, <3>2 DEF Receive
  <2>3. ASSUME NEW a \in Agents, RequestApproval(a) PROVE Runs
    BY <1>2, <2>3 DEF RequestApproval, NextCall, TypeInv, TypeOK
  <2>4. ASSUME NEW a \in Agents, Abandon(a) \/ Execute(a) PROVE Runs
    BY <1>2, <2>4 DEF Abandon, Execute, NextCall, TypeInv, TypeOK
  <2>5. ASSUME NEW a \in Agents, Return(a) \/ Think(a) \/ Cleanup(a) PROVE Runs
    BY <1>2, <2>5 DEF Return, Think, Cleanup, TypeInv, TypeOK
  <2>6. ASSUME NEW a \in Agents, NEW s \in Sessions, StartQuery(a, s) PROVE Runs
    BY <1>2, <2>6 DEF StartQuery, TypeInv, TypeOK
  <2>7. ASSUME UNCHANGED loopVars PROVE Runs
    BY <1>2, <2>7 DEF loopVars
  <2>8. Runs \/ (/\ NeedsApproval(Head(todo[b]).tool) => ApprovedIn(sid[b], CallId(b))
                 /\ UNCHANGED <<sid, iter, tokens, todo>>)
    BY <2>1, <2>2, <2>3, <2>4, <2>5, <2>6, <2>7
    DEF Next, Loop, Dismiss, Decide, Stop, SwitchCluster, Wait, vars
  <2> QED BY <2>8 DEF RunsFlow
<1> QED BY <1>1, <1>2 DEF RunsFlow

(* The three parts together. *)
LEMMA ApprovalsStep ==
  ASSUME TypeInv, RegistryHoldsLive, ApprovalsFlow, [Next]_vars
  PROVE  ApprovalsFlow'
BY ChannelsStep, WaitsStep, RunsStep DEF ApprovalsFlow

(* Execute is where calls take effect: it runs what was approved and let    *)
(* through.                                                                 *)
LEMMA ExecutionStep ==
  ASSUME TypeInv, VerdictStands, ApprovalsFlow, ExecutedByStarted, ApprovedById,
         GuardedExecution, [Next]_vars
  PROVE  ExecutedByStarted' /\ ApprovedById' /\ GuardedExecution'
<1>2. CASE UNCHANGED executed
  <2>1. ApprovedById'
    BY <1>2, ApprovedGrows DEF ApprovedById
  <2>2. ASSUME NEW e \in executed
        PROVE  at'[e.inv.agent] # "unused" /\ checkedFor'[e.inv.agent] = checkedFor[e.inv.agent]
    <3>1. e.inv.agent \in Agents /\ at[e.inv.agent] # "unused"
      BY DEF TypeInv, TypeOK, Invocations, ExecutedByStarted
    <3>2. ASSUME NEW a \in Agents, Cleanup(a)
          PROVE  at'[e.inv.agent] # "unused" /\ UNCHANGED checkedFor
      BY <3>1, <3>2 DEF Cleanup, TypeInv, TypeOK
    <3>3. ASSUME NEW a \in Agents, NEW s \in Sessions, StartQuery(a, s)
          PROVE  at'[e.inv.agent] # "unused" /\ checkedFor'[e.inv.agent] = checkedFor[e.inv.agent]
      BY <3>1, <3>3 DEF StartQuery, TypeInv, TypeOK
    <3> QED BY <3>1, <3>2, <3>3, StartOrEndOrSteady DEF Steady
  <2> QED BY <1>2, <2>1, <2>2 DEF ExecutedByStarted, GuardedExecution
<1>3. ASSUME NEW a \in Agents, Execute(a)
      PROVE  ExecutedByStarted' /\ ApprovedById' /\ GuardedExecution'
  <2> DEFINE call == Head(todo[a])
             e == [inv |-> Invocation(a), call |-> call, on |-> cluster,
                   session |-> sid[a], id |-> CallId(a)]
  <2>1. CASE UNCHANGED executed
    BY <1>2, <2>1
  <2>2. CASE call.tool \in {"delete_resource", "exec_command"} /\ executed' = executed \cup {e}
    <3>1. ApprovedIn(e.session, e.id)
      BY <1>3, <2>2
      DEF Execute, ApprovalsFlow, RunsFlow, NeedsApproval, WriteTools, DestructiveTools
    <3>2. ~PolicyBlocks(call.tool, call.ns, checkedFor[a])
      BY <1>3 DEF Execute, VerdictStands
    <3>3. call.ns \notin ProtectedNamespaces
      BY <2>2, <3>2, GuardrailsAssumption
      DEF PolicyBlocks, CheckedNamespace, ReadTools
    <3>4. ~AllowProductionDestructive => checkedFor[a] \notin ProductionClusters
      BY <2>2, <3>2 DEF PolicyBlocks, DestructiveTools
    <3>5. e.inv.agent = a /\ e.call = call
      BY DEF Invocation
    <3>6. \A d \in executed : d.inv.agent \in Agents
      BY DEF TypeInv, TypeOK, Invocations
    <3>7. \A b \in Agents : (at[b] # "unused" => at'[b] # "unused") /\ at'[a] # "unused"
      BY <1>3 DEF Execute, NextCall, TypeInv, TypeOK
    <3>8. UNCHANGED <<checkedFor, approved>>
      BY <1>3 DEF Execute, NextCall, uiVars
    <3>9. ExecutedByStarted'
      BY <2>2, <3>5, <3>6, <3>7 DEF ExecutedByStarted
    <3>10. ApprovedById'
      BY <2>2, <3>1, <3>8 DEF ApprovedById, ApprovedIn
    <3>11. GuardedExecution'
      BY <2>2, <3>3, <3>4, <3>5, <3>8 DEF GuardedExecution
    <3> QED BY <3>9, <3>10, <3>11
  <2> QED BY <1>3, <2>1, <2>2 DEF Execute
<1>4. UNCHANGED executed \/ \E a \in Agents : Execute(a)
  BY DEF Next, Loop, StartQuery, Return, Think, Check, RequestApproval, Receive, Abandon,
         Cleanup, Dismiss, Decide, Stop, SwitchCluster, Wait, vars
<1> QED BY <1>2, <1>3, <1>4

(* The inductive invariant holds of every reachable state. *)
LEMMA Inductive == Spec => []IInv
<1>1. Init => IInv
  <2> SUFFICES ASSUME Init PROVE IInv
    OBVIOUS
  <2>1. TypeInv
    BY InitTypeInv
  <2>2. RegistryHoldsLive /\ VerdictStands /\ ApprovalsFlow
    BY DEF Init, RegistryHoldsLive, VerdictStands, ApprovalsFlow, ChannelsFlow, WaitsFlow,
           RunsFlow
  <2>3. ExecutedByStarted /\ ApprovedById /\ GuardedExecution
    BY DEF Init, ExecutedByStarted, ApprovedById, GuardedExecution
  <2> QED BY <2>1, <2>2, <2>3 DEF IInv
<1>2. IInv /\ [Next]_vars => IInv'
  BY NextTypeInv, RegistryStep, VerdictStep, ApprovalsStep, ExecutionStep DEF IInv
<1> QED BY <1>1, <1>2, PTL DEF Spec

(* The registry never names an agent that has ended, and names each agent   *)
(* under its own conversation, although every query of a conversation       *)
(* overwrites and deletes the same entry.                                   *)
THEOREM RegistrySafe == Spec => []RegistryHoldsLive
BY Inductive, PTL DEF IInv

(* No call that changes the cluster or runs a command takes effect without  *)
(* an accepted approval of its session and its tool call id, whichever      *)
(* session object RequestApproval found and whatever went through the       *)
(* channels before.                                                         *)
THEOREM ApprovalsSafe == Spec => []ApprovedById
BY Inductive, PTL DEF IInv

(* No call that takes effect names a protected namespace, nor belongs to a  *)
(* query started on a production cluster, for any guardrail configuration.  *)
THEOREM GuardsHold == Spec => []GuardedExecution
BY Inductive, PTL DEF IInv

-----------------------------------------------------------------------------
(* The guardrails change in Check alone, the clock in Wait alone. *)
LEMMA GuardChange ==
  ASSUME [Next]_vars
  PROVE  \/ UNCHANGED <<now, guardVars>>
         \/ now' = now + 1 /\ UNCHANGED guardVars
         \/ /\ UNCHANGED now
            /\ \E a \in Agents :
                 LET call == Head(todo[a]) IN
                 \/ CheckToolBlocks(a, call.tool, call.ns, checkedFor[a], tokens[a])
                 \/ CheckToolPasses(a, call.tool, call.ns, checkedFor[a], tokens[a])
BY ZenonT(60) DEF Next, Loop, StartQuery, Return, Think, Check, RequestApproval, Receive, Abandon,
                Execute, Cleanup, Dismiss, Decide, Stop, SwitchCluster, Wait, Tick, vars

(* A call let through is appended to its agent's calls. *)
LEMMA PassAppends ==
  ASSUME GuardTypeOK, NEW a \in Agents, NEW tool, NEW ns, NEW cl, NEW tk,
         CheckToolPasses(a, tool, ns, cl, tk)
  PROVE  LET n == Len(passedAt[a]) IN
         /\ n \in Nat /\ Len(passedAt'[a]) = n + 1 /\ passedAt'[a][n + 1] = now
         /\ \A i \in 1..n : passedAt'[a][i] = passedAt[a][i]
         /\ callCount'[a] = callCount[a] + 1
         /\ windowCalls'[a] = Recent(a) \cup {n + 1}
         /\ \A b \in Agents \ {a} :
              UNCHANGED <<passedAt[b], callCount[b], windowCalls[b]>>
<1>1. passedAt[a] \in Seq(Times)
  BY DEF GuardTypeOK
<1>2. passedAt'[a] = Append(passedAt[a], now)
  BY DEF CheckToolPasses, GuardTypeOK
<1>3. LET n == Len(passedAt[a]) IN
      /\ n \in Nat /\ Len(passedAt'[a]) = n + 1 /\ passedAt'[a][n + 1] = now
      /\ \A i \in 1..n : passedAt'[a][i] = passedAt[a][i]
  BY <1>1, <1>2
<1>4. /\ callCount'[a] = callCount[a] + 1
      /\ windowCalls'[a] = Recent(a) \cup {Len(passedAt[a]) + 1}
      /\ \A b \in Agents \ {a} : UNCHANGED <<passedAt[b], callCount[b], windowCalls[b]>>
  BY DEF CheckToolPasses, GuardTypeOK
<1> QED BY <1>3, <1>4

(* A check drops only times that are out of the window, and the clock only   *)
(* moves on.                                                                *)
LEMMA WindowStep ==
  ASSUME GuardTypeOK, WindowInv, [Next]_vars
  PROVE  WindowInv'
<1>1. now \in Nat /\ Window \in Nat
      /\ \A a \in Agents : \A i \in 1..Len(passedAt[a]) : passedAt[a][i] \in Nat
  BY GuardrailsAssumption DEF GuardTypeOK, Times
<1>2. CASE UNCHANGED <<now, guardVars>>
  BY <1>2 DEF guardVars, WindowInv
<1>3. CASE now' = now + 1 /\ UNCHANGED guardVars
  BY <1>1, <1>3 DEF guardVars, WindowInv
<1>4. ASSUME UNCHANGED now, NEW a \in Agents, NEW tool, NEW ns, NEW cl, NEW tk,
             CheckToolBlocks(a, tool, ns, cl, tk)
      PROVE  WindowInv'
  BY <1>1, <1>4 DEF CheckToolBlocks, Recent, GuardTypeOK, WindowInv
<1>5. ASSUME UNCHANGED now, NEW a \in Agents, NEW tool, NEW ns, NEW cl, NEW tk,
             CheckToolPasses(a, tool, ns, cl, tk)
      PROVE  WindowInv'
  <2> SUFFICES ASSUME NEW b \in Agents
               PROVE  /\ callCount'[b] = Len(passedAt'[b])
                      /\ windowCalls'[b] \subseteq 1..Len(passedAt'[b])
                      /\ \A i \in 1..Len(passedAt'[b]) :
                           /\ passedAt'[b][i] <= now
                           /\ passedAt'[b][i] + Window > now => i \in windowCalls'[b]
    BY <1>5 DEF WindowInv
  <2>1. CASE b = a
    <3> DEFINE n == Len(passedAt[a])
    <3>1. /\ n \in Nat /\ Len(passedAt'[a]) = n + 1 /\ passedAt'[a][n + 1] = now
          /\ \A i \in 1..n : passedAt'[a][i] = passedAt[a][i]
          /\ callCount'[a] = n + 1
          /\ windowCalls'[a] = Recent(a) \cup {n + 1}
      BY <1>5, PassAppends DEF WindowInv
    <3>2. windowCalls'[a] \subseteq 1..(n + 1)
      BY <3>1 DEF Recent, WindowInv
    <3>3. ASSUME NEW i \in 1..(n + 1)
          PROVE  passedAt'[a][i] <= now /\ (passedAt'[a][i] + Window > now => i \in windowCalls'[a])
      <4>1. CASE i = n + 1
        BY <1>1, <3>1, <4>1
      <4>2. CASE i \in 1..n
        BY <3>1, <4>2 DEF Recent, WindowInv
      <4> QED BY <3>1, <4>1, <4>2
    <3> QED BY <2>1, <3>1, <3>2, <3>3
  <2>2. CASE b # a
    BY <1>5, <2>2, PassAppends DEF WindowInv
  <2> QED BY <2>1, <2>2
<1> QED BY <1>2, <1>3, <1>4, <1>5, GuardChange

(* Every call let through counts, and none is let through at the cap. *)
LEMMA CapStep ==
  ASSUME GuardTypeOK, WindowInv, CapHeld, [Next]_vars
  PROVE  CapHeld'
<1>1. ASSUME NEW a \in Agents, NEW tool, NEW ns, NEW cl, NEW tk,
             CheckToolPasses(a, tool, ns, cl, tk), ToolCap > 0
      PROVE  Len(passedAt'[a]) <= ToolCap
  BY <1>1, PassAppends, GuardrailsAssumption
  DEF CheckToolPasses, CapReached, WindowInv, GuardTypeOK
<1>2. ASSUME NEW a \in Agents, NEW tool, NEW ns, NEW cl, NEW tk,
             CheckToolPasses(a, tool, ns, cl, tk)
      PROVE  CapHeld'
  BY <1>1, <1>2, PassAppends DEF CapHeld
<1>3. CASE UNCHANGED passedAt
  BY <1>3 DEF CapHeld
<1> QED BY <1>2, <1>3, GuardChange DEF guardVars, CheckToolBlocks

(* When a call is let through, the calls of the last Window seconds are     *)
(* those counted, which were fewer than RateLimit, and the call itself.     *)
LEMMA RateStep ==
  ASSUME GuardTypeOK, WindowInv, RateHeld, [Next]_vars
  PROVE  RateHeld'
<1> DEFINE Span(p, i) == {j \in 1..i : p[j] + Window > p[i]}
<1>1. ASSUME NEW a \in Agents, NEW tool, NEW ns, NEW cl, NEW tk,
             CheckToolPasses(a, tool, ns, cl, tk), RateLimit > 0,
             NEW i \in 1..Len(passedAt'[a])
      PROVE  Cardinality(Span(passedAt'[a], i)) <= RateLimit
  <2> DEFINE n == Len(passedAt[a])
  <2>1. n \in Nat /\ Len(passedAt'[a]) = n + 1
    BY <1>1, PassAppends
  <2>2. CASE i \in 1..n
    <3>1. Span(passedAt'[a], i) = Span(passedAt[a], i)
      BY <1>1, <2>1, <2>2, PassAppends, SMTT(30)
    <3>2. i \in DOMAIN passedAt[a]
      BY <2>2 DEF GuardTypeOK
    <3> QED BY <1>1, <3>1, <3>2 DEF RateHeld
  <2>3. CASE i = n + 1
    <3>1. Span(passedAt'[a], i) \subseteq Recent(a) \cup {n + 1}
      BY <1>1, <2>1, <2>3, PassAppends DEF WindowInv, Recent
    <3>2. IsFiniteSet(Recent(a))
      <4>1. Recent(a) \subseteq 1..n
        BY DEF Recent, WindowInv
      <4>2. IsFiniteSet(1..n)
        BY <2>1, FS_Interval
      <4> QED BY <4>1, <4>2, FS_Subset
    <3>3. Cardinality(Recent(a)) \in Nat /\ Cardinality(Recent(a)) < RateLimit
      BY <1>1, <3>2, FS_CardinalityType, GuardrailsAssumption DEF CheckToolPasses, RateExceeded
    <3>4. /\ IsFiniteSet(Recent(a) \cup {n + 1})
          /\ Cardinality(Recent(a) \cup {n + 1}) <= RateLimit
      <4>1. /\ IsFiniteSet(Recent(a) \cup {n + 1})
            /\ Cardinality(Recent(a) \cup {n + 1}) =
                 IF n + 1 \in Recent(a) THEN Cardinality(Recent(a))
                 ELSE Cardinality(Recent(a)) + 1
        BY <3>2, FS_AddElement
      <4> QED BY <3>3, <4>1, GuardrailsAssumption
    <3>5. /\ Cardinality(Span(passedAt'[a], i)) <= Cardinality(Recent(a) \cup {n + 1})
          /\ IsFiniteSet(Span(passedAt'[a], i))
      BY <3>1, <3>4, FS_Subset
    <3>6. /\ Cardinality(Span(passedAt'[a], i)) \in Nat
          /\ Cardinality(Recent(a) \cup {n + 1}) \in Nat
      BY <3>4, <3>5, FS_CardinalityType
    <3> QED BY <3>4, <3>5, <3>6, GuardrailsAssumption
  <2> QED BY <2>1, <2>2, <2>3
<1>2. ASSUME NEW a \in Agents, NEW tool, NEW ns, NEW cl, NEW tk,
             CheckToolPasses(a, tool, ns, cl, tk)
      PROVE  RateHeld'
  <2> SUFFICES ASSUME RateLimit > 0, NEW b \in Agents, NEW i \in DOMAIN passedAt'[b]
               PROVE  Cardinality(Span(passedAt'[b], i)) <= RateLimit
    BY DEF RateHeld
  <2>1. CASE b = a
    <3>1. i \in 1..Len(passedAt'[a])
      <4>1. passedAt'[a] = Append(passedAt[a], now) /\ passedAt[a] \in Seq(Times)
        BY <1>2 DEF CheckToolPasses, GuardTypeOK
      <4> QED BY <2>1, <4>1 DEF GuardTypeOK
    <3> QED BY <1>1, <1>2, <2>1, <3>1
  <2>2. CASE b # a
    BY <1>2, <2>2, PassAppends DEF RateHeld
  <2> QED BY <2>1, <2>2
<1>3. CASE UNCHANGED passedAt
  BY <1>3 DEF RateHeld
<1> QED BY <1>2, <1>3, GuardChange DEF guardVars, CheckToolBlocks

(* The window mirrors the calls let through, so both limits are kept. *)
LEMMA LimitsHold == Spec => [](CapHeld /\ RateHeld)
<1> DEFINE Limits == WindowInv /\ CapHeld /\ RateHeld
<1>1. Init => Limits
  <2> SUFFICES ASSUME Init PROVE Limits
    OBVIOUS
  <2>1. \A a \in Agents : callCount[a] = 0 /\ passedAt[a] = <<>> /\ windowCalls[a] = {}
    BY DEF Init, GuardInit
  <2>2. WindowInv
    BY <2>1, EmptySeq DEF WindowInv
  <2>3. CapHeld /\ RateHeld
    BY <2>1, GuardrailsAssumption DEF CapHeld, RateHeld
  <2> QED BY <2>2, <2>3
<1>2. TypeOK /\ Limits /\ [Next]_vars => Limits'
  BY WindowStep, CapStep, RateStep DEF TypeOK
<1> QED BY <1>1, <1>2, TypeCorrect, PTL DEF Spec

(* A session never gets more calls than its cap, over any number of         *)
(* responses and iterations.                                                *)
THEOREM CapSafe == Spec => []CapHeld
BY LimitsHold, PTL

(* No span of Window seconds ever sees more than RateLimit calls of one     *)
(* agent, however its checks and the clock interleave, although the kept    *)
(* times are cut down at every check, also one that refuses the call.       *)
THEOREM RateSafe == Spec => []RateHeld
BY LimitsHold, PTL
=============================================================================
