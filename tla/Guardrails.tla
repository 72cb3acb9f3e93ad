------------------------------ MODULE Guardrails ------------------------------
(***************************************************************************)
(* The checks of internal/ai/guardrails.go on every tool call of an AI     *)
(* agent, over the registry of internal/ai/tools.go.  Each query builds a  *)
(* Guardrails object of its own; CheckTool holds its mutex throughout.     *)
(***************************************************************************)
EXTENDS Naturals, Sequences, FiniteSets

CONSTANTS
  Agents,              \* one per AIAgentQuery call
  Clusters,            \* cluster contexts
  ProductionClusters,  \* those for which isProductionCluster holds
  Namespaces,          \* namespaces tool calls name
  NoNamespace,         \* a call without a namespace parameter
  DefaultNamespace,    \* the agent's own namespace
  AllowedNamespaces,   \* empty: all are allowed
  ProtectedNamespaces,
  BlockDestructive, AllowProductionDestructive,
  RateLimit, Window,   \* calls per window, 0: no limit
  ToolCap,             \* calls per session, 0: no cap
  TokenBudget,         \* 0: no budget
  MaxTime              \* bound on the clock

ASSUME GuardrailsAssumption ==
  /\ ProductionClusters \subseteq Clusters
  /\ NoNamespace \notin Namespaces
  /\ DefaultNamespace \in Namespaces
  /\ AllowedNamespaces \subseteq Namespaces
  /\ ProtectedNamespaces \subseteq Namespaces
  /\ {BlockDestructive, AllowProductionDestructive} \subseteq BOOLEAN
  /\ {RateLimit, Window, ToolCap, TokenBudget, MaxTime} \subseteq Nat

(* The tools of the registry by category. *)
ReadTools == {"describe_resource", "get_events", "get_pod_logs",
              "get_resource_yaml", "list_resources", "get_security_summary"}
WriteTools == {"apply_manifest", "restart_deployment", "scale_deployment"}
DestructiveTools == {"delete_resource", "exec_command", "patch_resource"}
Registry == ReadTools \cup WriteTools \cup DestructiveTools

(* Every write and destructive tool is ApprovalAlways, every other Never. *)
NeedsApproval(tool) == tool \in WriteTools \cup DestructiveTools

VARIABLES
  now,          \* the clock
  callCount,    \* calls let through in each agent's session
  passedAt,     \* their times, in order
  windowCalls   \* the calls (by number) whose times the window still holds

guardVars == <<callCount, passedAt, windowCalls>>

Times == 0..MaxTime

GuardTypeOK ==
  /\ now \in Times
  /\ callCount \in [Agents -> Nat]
  /\ passedAt \in [Agents -> Seq(Times)]
  /\ windowCalls \in [Agents -> SUBSET Nat]

GuardInit ==
  /\ now = 0
  /\ callCount = [a \in Agents |-> 0]
  /\ passedAt = [a \in Agents |-> <<>>]
  /\ windowCalls = [a \in Agents |-> {}]

-----------------------------------------------------------------------------
(* Mutant: the agent's own namespace is checked, not the one the call names. *)
CheckedNamespaceOwn(ns) == DefaultNamespace

(* The namespace the checks are made for, and where the tool acts. *)
CheckedNamespace(ns) == IF ns = NoNamespace THEN DefaultNamespace ELSE ns

(* Layers 1 to 3: unknown tool, namespace sandbox, protected namespace,     *)
(* production cluster, destructive tools disabled.  They return before the  *)
(* rate window is touched.                                                  *)
PolicyBlocks(tool, ns, cluster) ==
  \/ tool \notin Registry
  \/ AllowedNamespaces # {} /\ CheckedNamespace(ns) \notin AllowedNamespaces
  \/ CheckedNamespace(ns) \in ProtectedNamespaces /\ tool \notin ReadTools
  \/ /\ cluster \in ProductionClusters
     /\ tool \in DestructiveTools
     /\ ~AllowProductionDestructive
  \/ BlockDestructive /\ tool \in DestructiveTools

(* Mutant: the window is cut at the wrong end. *)
RecentReversed(a) == {i \in windowCalls[a] : passedAt[a][i] + Window <= now}

Recent(a) == {i \in windowCalls[a] : passedAt[a][i] + Window > now}

RateExceeded(a) == RateLimit > 0 /\ Cardinality(Recent(a)) >= RateLimit
(* Mutant: one call too many. *)
CapReachedLate(a) == ToolCap > 0 /\ callCount[a] > ToolCap
CapReached(a) == ToolCap > 0 /\ callCount[a] >= ToolCap
BudgetExhausted(tokens) == TokenBudget > 0 /\ tokens >= TokenBudget

CheckToolBlocks(a, tool, ns, cluster, tokens) ==
  /\ \/ PolicyBlocks(tool, ns, cluster) /\ UNCHANGED windowCalls
     \/ /\ ~PolicyBlocks(tool, ns, cluster)
        /\ RateExceeded(a) \/ CapReached(a) \/ BudgetExhausted(tokens)
        /\ windowCalls' = [windowCalls EXCEPT ![a] = Recent(a)]
  /\ UNCHANGED <<callCount, passedAt>>

CheckToolPasses(a, tool, ns, cluster, tokens) ==
  /\ ~PolicyBlocks(tool, ns, cluster)
  /\ ~(RateExceeded(a) \/ CapReached(a) \/ BudgetExhausted(tokens))
  /\ windowCalls' = [windowCalls EXCEPT ![a] = Recent(a) \cup {Len(passedAt[a]) + 1}]
  /\ callCount' = [callCount EXCEPT ![a] = @ + 1]
  /\ passedAt' = [passedAt EXCEPT ![a] = Append(@, now)]

Tick == now < MaxTime /\ now' = now + 1

-----------------------------------------------------------------------------
(* No window of the last Window seconds ever holds more than RateLimit      *)
(* calls, though the times kept are cut down at every check.                *)
RateHeld ==
  RateLimit > 0 =>
    \A a \in Agents : \A i \in DOMAIN passedAt[a] :
      Cardinality({j \in 1..i : passedAt[a][j] + Window > passedAt[a][i]})
        <= RateLimit

(* A session never gets more than ToolCap calls, over all its iterations. *)
CapHeld == ToolCap > 0 => \A a \in Agents : Len(passedAt[a]) <= ToolCap
=============================================================================
