\* Two containers that collide: fetches and the watcher make progress.
CONSTANTS
  c1 = c1
  c2 = c2
  w1 = w1
  None = None
  ServiceId = {c1, c2, w1}
  Container = {c1, c2}
  Swarm = {}
  Method = {"GET"}
  DocPath <- MCPattern
  Pattern <- MCPattern
  Path <- MCPattern
  Matches <- MCMatches
  Labels <- MCLabels
  RouteList <- MCRouteList
  OpenApi <- MCOpenApi
  Enabled <- MCEnabled
  FilterClash <- MCClash
  Extract <- MCExtract
  Host <- MCHost
  HostOf <- OwnHosts
  Deployment <- OneDeployment
  Attempts = 2
  NetFilterModes = {TRUE}
  Failures = {"stream", "scan"}
  Slot = {1}
  MaxStream = 1
  Scanner = {"watcher"}
SPECIFICATION FairSpecDiscovery
CHECK_DEADLOCK FALSE
PROPERTIES ImplementsRegistry FetchTerminates WatcherRecovers StartTakesEffect StopTakesEffect
