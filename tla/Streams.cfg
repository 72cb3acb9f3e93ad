SPECIFICATION Spec
CONSTANTS
  Kinds = {1, 2}
  Watches = {1, 2, 3}
  NoWatch = 0
  EventSlots = 1
  Streams = {1, 2}
  NoStream = 0
  LineSlots = 1
  OutSlots = 1
  MaxLines = 2
  MaxLine = 3
  Forwards = {1, 2, 3}
  NoForward = 0
  Pods = {1, 2}
  LocalPorts = {1, 2}
  Shells = {1, 2, 3}
  NoShell = 0
  SessionIds = {1, 2}
  Clusters = {"dev"}
  NoClient = 0
  MaxClients = 2
  MaxCollectors = 2
  MaxRefreshes = 2
  MaxVersions = 2
INVARIANTS TypeOK WatchersNamed OneStream LinesUnbroken RunningIsListed NoOrphanShell
PROPERTIES SavesGoForward CanceledConsumerEnds CanceledStreamEnds EndIsShown ExitIsReaped
CHECK_DEADLOCK FALSE
