SPECIFICATION FairSpec
CONSTANTS
  c1 = c1  m1 = m1  s1 = s1  s2 = s2  A = A  r1 = r1  r2 = r2
  Models = {m1}
  Orgs = {A}
  Consumers = {c1}
  Requests = {r1, r2}
  FaultKinds = {"signal", "kill", "fetch"}
  MaxFaults = 1
  MaxAttempts = 2
  Served <- ServedHere
  VllmServers <- ServersHere
  OrgOf <- OrgsHere
  Kinds <- KindsHere
  Model <- ModelsHere
  RoutingMode <- ModesHere
  UserOrg <- UsersHere
  HostMapping <- MappingHere
INVARIANTS
  TypeOK
  NoFalseUnknown
  ReturnedOnlyUnserved
  NothingConsumedUnready
PROPERTIES
  EveryRequestAnswered
  StartupEnds
  SignalStops
\* Nothing has to happen once every request is answered.
CHECK_DEADLOCK FALSE
