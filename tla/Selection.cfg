SPECIFICATION FairSpec
CONSTANTS
  s1 = s1  s2 = s2
  VllmServers <- Two
  Buckets = {1, 2}
  Strategies = {"round-robin", "least-busy"}
  WindowSize = 2
  Faults = {"outage", "fetch", "restart", "empty", "shutdown"}
  MaxFaults = 1
  MaxServed = 1
  MaxChoices = 2
INVARIANTS
  TypeOK
  AlwaysChooses
  WindowExact
  RoundRobinEven
  NothingMonitoredAtExit
PROPERTIES
  KnownFromTheCycle
  HealthConverges
  ShutdownCompletes
  MonitoringGoesOn
\* The consumer exits.
CHECK_DEADLOCK FALSE
