SPECIFICATION FairSpec
CONSTANTS
  s1 = s1  s2 = s2
  VllmServers <- One
  Buckets = {1, 2}
  Strategies = {"least-busy"}
  WindowSize = 2
  Faults = {"fetch"}
  MaxFaults = 1
  MaxServed = 1
  MaxChoices = 0
PROPERTIES
  MetricsAreUpdated
