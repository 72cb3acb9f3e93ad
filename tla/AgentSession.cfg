SPECIFICATION Spec
CONSTANTS
  Agents = {a1, a2}
  Sessions = {"c1"}
  StopIds = {"c1", "view"}
  Tools = {"delete_resource", "list_resources"}
  Clusters = {"dev", "prod"}
  ProductionClusters = {"prod"}
  Namespaces = {"default", "kube-system"}
  NoNamespace = "none"
  DefaultNamespace = "default"
  AllowedNamespaces = {}
  ProtectedNamespaces = {"kube-system"}
  BlockDestructive = FALSE
  AllowProductionDestructive = FALSE
  RateLimit = 0
  Window = 0
  ToolCap = 2
  TokenBudget = 3
  MaxTime = 0
  MaxCalls = 1
  MaxIterations = 1
  TokenCounts = {1, 2, 3}
  NoAgent = NoAgent
  NoSession = NoSession
  NoMsg = NoMsg
SYMMETRY AgentSymmetry
INVARIANTS TypeOK ApprovedById GuardedExecution RegistryHoldsLive
