\* The registry with overlapping globs: README, "existing service unaffected".
CONSTANTS
  s1 = s1
  s2 = s2
  s3 = s3
  ServiceId = {s1, s2, s3}
  Method = {"GET", "PUT"}
  DocPath <- MCDocPath
  Pattern <- MCPattern
  Path <- MCPath
  Matches <- MCMatches
  Labels = {"open", "secured"}
  None = None
  RouteList <- MCRouteList
  OpenApi <- MCOpenApi
  Listing <- MCListing
  Schemas <- MCSchemas
  NamesOf <- MCNamesOf
  SlugOf <- MCSlugOf
  NeedsToken <- MCNeedsToken
  NeedsApiKey = {"secured"}
  AuthRequired = TRUE
  ApiKeyRequired = TRUE
SPECIFICATION SpecDocs
PROPERTIES ExistingServiceUnaffected
