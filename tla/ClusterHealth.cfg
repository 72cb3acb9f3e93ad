SPECIFICATION FairSpec
CONSTANTS
  Contexts = {"dev", "prod"}
  NoContext = "none"
  CurrentContext = "dev"
  Gens = {1, 2}
  NoGen = 0
  DegradeAfter = 2
  DisconnectAfter = 3
  BackoffMin = 1
  BackoffMax = 4
  MaxFailures = 3
  Callers = {p1}
PROPERTIES HealthRecovers OutageNoticed ShutdownCompletes
