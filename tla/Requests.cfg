\* Three clients, a provider that changes its keys, a key file that is rewritten and reloaded.
CONSTANTS
  alice = alice
  bob = bob
  carol = carol
  s1 = s1
  None = None
  ServiceId = {s1}
  Method = {"GET"}
  DocPath = {"/users/{id}"}
  Pattern = {"/crm/users/*"}
  Path <- MCPath
  Matches <- MCMatches
  Labels = {"open", "secured"}
  RouteList <- MCRouteList
  Request = {alice, bob, carol}
  Call <- MCCall
  KeySet = {"old", "new"}
  Verifies <- MCVerifies
  NeedsToken <- MCNeedsToken
  NeedsApiKey = {"open"}
  Offers <- MCOffers
  JwksUrl = TRUE
  TTL = 1
  MaxFetch = 1
  KeyFile <- MCKeyFile
  MaxTime = 2
  MaxClients = 2
  AuthMode = "validate"
  Claims <- MCClaims
  RolePieces <- MCRolePieces
  PrefixOf <- MCPrefixOf
  NameOf <- MCNameOf
  RoleNames = {"admin", "auditor"}
SPECIFICATION SpecPath
INVARIANTS PathOK BoundedStaleness AdmittedByPolicy ServiceKnowsCaller ViewsAndPermissionsAgree
PROPERTIES KeysFollowFile
