\* A container and a Swarm service that collide at one address, updates that make the
\* labels of the service clash, missed events, failing scans, rediscovery on request.
CONSTANTS
  c1 = c1
  c2 = c2
  w1 = w1
  None = None
  ServiceId = {c1, c2, w1}
  Container = {c1}
  Swarm = {w1}
  Method = {"GET"}
  DocPath <- MCPattern
  Pattern <- MCPattern
  Path <- MCPattern
  Matches <- MCMatches
  Labels <- MCLabels
  RouteList <- MCRouteList
  OpenApi <- MCOpenApi
  Enabled <- MCEnabled
  FilterClash <- MCClash
  Extract <- MCExtract
  Host <- MCHost
  HostOf <- SharedHosts
  Deployment <- ClashOrNot
  Attempts = 1
  NetFilterModes = {TRUE}
  Failures = {"inspect", "scan", "stream"}
  Slot = {1}
  MaxStream = 1
  Scanner = {"watcher", "admin"}
SPECIFICATION FairSpecDiscovery
CHECK_DEADLOCK FALSE
PROPERTIES RediscoverRepairs RediscoverUnblocks RediscoverUpdates
