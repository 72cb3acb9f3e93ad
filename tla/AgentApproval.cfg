SPECIFICATION Spec
CONSTANTS
  Agents = {a1}
  Sessions = {"c1"}
  StopIds = {"c1", "view"}
  Tools = {"delete_resource"}
  Clusters = {"dev", "prod"}
  ProductionClusters = {"prod"}
  Namespaces = {"default"}
  NoNamespace = "none"
  DefaultNamespace = "default"
  AllowedNamespaces = {}
  ProtectedNamespaces = {}
  BlockDestructive = FALSE
  AllowProductionDestructive = FALSE
  RateLimit = 0
  Window = 0
  ToolCap = 0
  TokenBudget = 0
  MaxTime = 0
  MaxCalls = 2
  MaxIterations = 1
  TokenCounts = {1}
  NoAgent = NoAgent
  NoSession = NoSession
  NoMsg = NoMsg
INVARIANT ApprovedPerInvocation
