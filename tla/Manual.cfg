\* Two reloads at a time, a service that may be unreachable, a Docker service that collides.
CONSTANTS
  None = None
  NoFile = NoFile
  Broken = Broken
  m1 = m1
  m2 = m2
  d1 = d1
  ServiceId = {m1, m2, d1}
  Manual = {m1, m2}
  Method = {"GET"}
  DocPath <- MCPattern
  Pattern <- MCPattern
  Path <- MCPattern
  Matches <- MCMatches
  Labels <- MCLabels
  RouteList <- MCRouteList
  OpenApi <- MCOpenApi
  FilterClash = {"clash"}
  Extract <- MCExtract
  Content <- MCContent
  Reload = {"r1", "r2"}
  Unreachable = {m2}
  DockerLabels = {"plain"}
SPECIFICATION FairSpecManual
INVARIANTS ManualOK LoadMatchesFile SingleOwner
PROPERTIES LoadsTerminate UnambiguousUnaffected
