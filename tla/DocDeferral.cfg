SPECIFICATION Spec
CONSTANTS
  r1 = r1  r2 = r2  r3 = r3  s1 = s1  s2 = s2  c1 = c1  c2 = c2
  A = A  B = B  C = C  t1 = t1  t2 = t2  t3 = t3
  NoServer = NoServer  NoAnswer = NoAnswer  NoRequest = NoRequest
  Requests = {r1, r2}
  Servers = {s1}
  Consumers = {c1}
  MainTags = {t1}
  FirstTag = t1
  HostMapping = {A}
  MaxPriority = 5
  BestPriority = 5
  Policy = "performance-based-requeue"
  Strategy = "least-busy"
  FaultKinds = {}
  MaxFaults = 0
  Priority <- Plain
  Mode <- AllAny
  UserOrg <- UsersOfA
  Org <- OneOrg
  Hosts <- HostAll
  MaxParallel <- Limit1
  Threshold <- Threshold3
INVARIANTS
  RefusedAreRequeued
