\* A container and a Swarm service that can be skipped, blocked, updated or lost.
CONSTANTS
  c1 = c1
  c2 = c2
  w1 = w1
  None = None
  ServiceId = {c1, c2, w1}
  Container = {c1}
  Swarm = {w1}
  Method = {"GET"}
  DocPath <- MCPattern
  Pattern <- MCPattern
  Path <- MCPattern
  Matches <- MCMatches
  Labels <- MCLabels
  RouteList <- MCRouteList
  OpenApi <- MCOpenApi
  Enabled <- MCEnabled
  FilterClash <- MCClash
  Extract <- MCExtract
  Host <- MCHost
  HostOf <- OwnHosts
  Deployment <- MixedDeployments
  Attempts = 1
  NetFilterModes = {TRUE}
  Failures = {"stream", "inspect", "get", "scan"}
  Slot = {1, 2}
  MaxStream = 1
  Scanner = {"watcher"}
SPECIFICATION SpecDiscovery
CHECK_DEADLOCK FALSE
INVARIANTS DiscoveryOK OptIn RoutesMatchLabels
