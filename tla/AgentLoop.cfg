SPECIFICATION FairSpec
CONSTANTS
  Agents = {a1}
  Sessions = {"c1"}
  StopIds = {"c1", "view"}
  Tools = {"delete_resource"}
  Clusters = {"dev"}
  ProductionClusters = {}
  Namespaces = {"default"}
  NoNamespace = "none"
  DefaultNamespace = "default"
  AllowedNamespaces = {}
  ProtectedNamespaces = {}
  BlockDestructive = FALSE
  AllowProductionDestructive = FALSE
  RateLimit = 2
  Window = 2
  ToolCap = 3
  TokenBudget = 0
  MaxTime = 2
  MaxCalls = 2
  MaxIterations = 2
  TokenCounts = {1}
  NoAgent = NoAgent
  NoSession = NoSession
  NoMsg = NoMsg
INVARIANTS RateHeld CapHeld
PROPERTIES StoppedEnds
