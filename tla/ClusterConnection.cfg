SPECIFICATION Spec
CONSTANTS
  Contexts = {"dev", "prod"}
  NoContext = "none"
  CurrentContext = "dev"
  Gens = {1, 2}
  NoGen = 0
  DegradeAfter = 2
  DisconnectAfter = 5
  BackoffMin = 1
  BackoffMax = 60
  MaxFailures = 5
  Callers = {p1, p2}
SYMMETRY CallerSymmetry
INVARIANTS TypeOK OpenIsManaged EveryClientHasInfo HealthLadder DegradedIsEarned
PROPERTIES ActiveClientIsStable ImplementsActiveCluster
