SPECIFICATION Spec
CONSTANTS
  Contexts = {k1, k2}
  k1 = k1
  NoContext = NoContext
  Views = {"dashboard", "explorer", "logs", "visualizer", "diff", "gitops", "timeline", "analyzer",
    "portforwards", "rbac", "security", "query"}
  MaxConnects = 1
  Kinds = {"pods", "nodes", "secrets"}
  AllNamespaces = all
  Namespaces = {all, ns1}
  Nothing = Nothing
  MaxFetches = 2
  MaxPanels = 2
  n1 = n1
  n2 = n2
  n3 = n3
  GraphNodes = {n1, n2, n3}
  NoNode = NoNode
  Answers <- graphs
  AllScope = all
  Scopes = {all, ns1}
  Toggled = {n2}
  MaxEpoch = 3
  MaxLayouts = 2
  MaxSessions = 2
  Rows <- rows
  MaxRows = 2
  TableKinds = {"pods", "secrets"}
  togglesForKind <- toggles
  PAGE_SIZE = 2
  Places = {p1}
  FirstPlace = p1
  Unset = Unset
  Filters = {ns1}
  NoFilter = NoFilter
  MaxItems = 2
  MaxCalls = 3
  Categories = {"Node", "Stuck"}
  SecurityTabs = {"roles", "clusterroles"}
  ClusterScoped = {"clusterroles"}
  FirstTab = "roles"
  LogTargets = {"pod", "deployment"}
  NoTarget = NoTarget
  isWorkload <- workloadTarget
  MaxLogCalls = 2
  DashboardPanels = {"events", "securityScore"}
  SecurityPanel = "securityScore"
  MaxPanelCalls = 2
INVARIANTS TypeOK HighlightFollowsSelection RowsSettle GraphSettles SelectionInRows 
CHECK_DEADLOCK FALSE
