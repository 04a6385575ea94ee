\* docker_watcher.py line 198, with no failure and one container.
CONSTANTS
  c1 = c1
  c2 = c2
  w1 = w1
  None = None
  ServiceId = {c1, c2, w1}
  Container = {c1}
  Swarm = {}
  Method = {"GET"}
  DocPath <- MCPattern
  Pattern <- MCPattern
  Path <- MCPattern
  Matches <- MCMatches
  Labels <- MCLabels
  RouteList <- MCRouteList
  OpenApi <- MCOpenApi
  Enabled <- MCEnabled
  FilterClash <- MCClash
  Extract <- MCExtract
  Host <- MCHost
  HostOf <- OwnHosts
  Deployment <- OneDeployment
  Attempts = 1
  NetFilterModes = {TRUE}
  Failures = {}
  Slot = {1}
  MaxStream = 2
  Scanner = {"watcher"}
SPECIFICATION FairSpecDiscovery
CHECK_DEADLOCK FALSE
PROPERTIES StoppedMeansDeregistered
