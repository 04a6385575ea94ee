----------------------------- MODULE ClientIdentity -----------------------------
(***************************************************************************)
(* What a Django service learns of its caller.  The gateway writes headers *)
(* into the request it forwards (gateway/proxy/forwarder.py,               *)
(* gateway/auth/middleware.py); the client library reads them back, once   *)
(* in its middleware and once in its REST framework classes, and decides   *)
(* by decorators or by permissions (clients/django_gateway).               *)
(*                                                                         *)
(* A header is the sequence of its lines, which WSGI joins with commas; a  *)
(* missing one has none.  A request may come with headers of these names   *)
(* already, from a gateway in front of this one, say: they are passed on,  *)
(* and as their names are in lower case then, what this gateway writes     *)
(* makes a further line.  Of roles, which are joined with commas anyway,   *)
(* the texts are kept; a roles claim that is no list is one text.          *)
(***************************************************************************)
EXTENDS RequestPath

CONSTANTS AuthMode,     \* "relay" or "validate"
          Claims,       \* Claims[token]: id, email ("" when missing) and roles, a sequence
          RolePieces,   \* RolePieces[text]: what split(",") and strip() make of a role
          PrefixOf,     \* PrefixOf[labels]: the prefix of the service, a sequence, or <<>>
          NameOf,       \* NameOf[sid][labels]: the name of the service
          RoleNames     \* the roles that a view may ask for

TenantIds == {tenant.id : tenant \in Tenants \ {None}}

(* The headers that the gateway writes, and Call[r].own[header] for the    *)
(* lines of it that a request comes with.                                  *)
Header == {"userId", "email", "roles", "tenantId", "tenantName", "originalPath", "service"}

ASSUME ClaimsAssumption ==
    \A r \in Request : Call[r].token # None =>
        Claims[Call[r].token].roles \in Seq(Range(Claims[Call[r].token].roles))
ASSUME TenantAssumption == TenantIds \cap {None, ""} = {}
ASSUME PrefixAssumption ==
    \A labels \in Labels, p \in Path : {PrefixOf[labels], p} \subseteq Seq(Range(PrefixOf[labels]) \cup Range(p))

ASSUME OwnAssumption ==
    \A r \in Request, header \in Header :
        Call[r].own[header] \in Seq(Range(Call[r].own[header]))

(* _extract_routes() puts the prefix before every path, and the glob of a  *)
(* path that begins with text begins with it (openapi_fetcher.py, lines    *)
(* 13-15 and 35-60).                                                       *)
ASSUME PrefixFirst ==
    \A labels \in Labels : \A routes \in Offers[labels] : \A n \in DOMAIN routes :
        \A p \in Matches[routes[n].exposed] : IsPrefix(PrefixOf[labels], p)

---------------------------------------------------------------------------
(* The forwarded request.                                                  *)
Injects(r)  == AuthMode = "validate" /\ req[r].claims # None
Prefixed(r) == PrefixOf[req[r].answer.labels] # <<>>

StripPrefix(path, prefix) ==
    IF IsPrefix(prefix, path) THEN SubSeq(path, Len(prefix) + 1, Len(path)) ELSE path

UpstreamPath(r) == StripPrefix(Call[r].path, PrefixOf[req[r].answer.labels])

Injected(r) ==
    LET user == Claims[req[r].claims]
    IN  IF Injects(r) THEN [userId |-> <<user.id>>, email |-> <<user.email>>, roles |-> user.roles]
                      ELSE [userId |-> <<>>, email |-> <<>>, roles |-> <<>>]

Written(r) ==
    LET tenant == req[r].tenant
    IN  [userId       |-> Injected(r).userId,
         email        |-> Injected(r).email,
         roles        |-> Injected(r).roles,
         tenantId     |-> IF tenant # None THEN <<tenant.id>> ELSE <<>>,
         tenantName   |-> IF tenant # None /\ tenant.name \notin {None, ""} THEN <<tenant.name>> ELSE <<>>,
         originalPath |-> IF Prefixed(r) THEN <<Call[r].path>> ELSE <<>>,
         service      |-> IF Prefixed(r) THEN <<NameOf[req[r].answer.owner][req[r].answer.labels]>>
                                         ELSE <<>>]

Headers(r) == [header \in Header |-> Call[r].own[header] \o Written(r)[header]]

(* The token is passed on unless its claims are; the key never is.         *)
Authorization(r) == IF Injects(r) THEN None ELSE Call[r].token
ApiKeyHeader(r)  == IF req[r].tenant # None THEN None ELSE Call[r].key

---------------------------------------------------------------------------
(* The reader.  Without a user id, request.user is what Django's own       *)
(* authentication left, a session's user or nobody.                        *)
LocalUser == {"session", "anonymous"}

Blank(lines) == lines \in {<<>>, <<"">>}

GatewayUserFirstRole(meta) ==     \* faulty: the roles header is read up to the first comma
    [kind |-> "gateway", id |-> meta["userId"],
     roles |-> IF meta["roles"] = <<>> THEN {} ELSE RolePieces[Head(meta["roles"])]]

GatewayUser(meta) ==
    [kind |-> "gateway", id |-> meta["userId"],
     roles |-> UNION {RolePieces[text] : text \in Range(meta["roles"])}]

User(meta, local) ==
    IF Blank(meta["userId"]) THEN [kind |-> local, id |-> <<>>, roles |-> {}]
                             ELSE GatewayUser(meta)

TenantUnset == [id |-> <<>>, name |-> <<>>]

GatewayTenant(meta) ==
    IF Blank(meta["tenantId"]) THEN TenantUnset
    ELSE [id |-> meta["tenantId"],
          name |-> IF Blank(meta["tenantName"]) THEN meta["tenantId"] ELSE meta["tenantName"]]

(* GatewayAuthentication reads the tenant only of a request with a user.   *)
DrfTenant(meta) == IF Blank(meta["userId"]) THEN TenantUnset ELSE GatewayTenant(meta)

HasAnyRole(user, roles)  == user.roles \cap roles # {}
HasAllRolesOf(user, roles) == roles \subseteq user.roles

---------------------------------------------------------------------------
(* Decorators: the view runs, or the request is refused.                   *)
RequireGatewayAuth(user) == IF user.kind = "gateway" THEN "view" ELSE "401"
RequireTenant(tenant)    == IF tenant # TenantUnset THEN "view" ELSE "403"

ByRoles(user, allowed) == CASE user.kind = "anonymous"             -> "401"
                            [] user.kind = "gateway" /\ allowed    -> "view"
                            [] OTHER                               -> "403"

RequireRole(user, roles)     == ByRoles(user, HasAnyRole(user, roles))
RequireAllRoles(user, roles) == ByRoles(user, HasAllRolesOf(user, roles))

(* Permissions.                                                            *)
IsGatewayAuthenticated(user) == user.kind = "gateway"
HasTenant(tenant)            == tenant # TenantUnset

HasRoleOfAll(user, roles) ==    \* faulty: every role is asked for
    user.kind = "gateway" /\ HasAllRolesOf(user, roles)

HasRole(user, roles)         == user.kind = "gateway" /\ HasAnyRole(user, roles)
HasAllRoles(user, roles)     == user.kind = "gateway" /\ HasAllRolesOf(user, roles)

---------------------------------------------------------------------------
Clean(token) == \A text \in Range(Claims[token].roles) : RolePieces[text] = {text}

(* A service learns of the caller that the gateway checked: his id stands  *)
(* last, his roles are among the roles, when none holds a comma or is      *)
(* blank, and so are his key's tenant and the path that he asked for; the  *)
(* key itself it does not see.  It learns of nobody else only as far as    *)
(* the request came without such headers of its own (forwarder.py, lines   *)
(* 36-56; django_gateway/middleware.py, 166-189).                          *)
Validated(r) ==
    /\ AuthMode = "validate"
    /\ req[r].answer.route \in NeedsToken[req[r].answer.labels]
    /\ Claims[Call[r].token].id # ""

UserIsKnown(r, user) ==
    /\ Validated(r) =>
          /\ user.kind = "gateway"
          /\ user.id = Call[r].own["userId"] \o <<Claims[Call[r].token].id>>
          /\ Clean(Call[r].token) => Range(Claims[Call[r].token].roles) \subseteq user.roles
          /\ Clean(Call[r].token) /\ Call[r].own["roles"] = <<>> =>
                user.roles = Range(Claims[Call[r].token].roles)
    /\ user.kind = "gateway" /\ Call[r].own["userId"] = <<>> => Validated(r)

TenantIsKnown(r, tenant) ==
    /\ Call[r].key # None => tenant.id = Call[r].own["tenantId"] \o <<req[r].tenant.id>>
    /\ tenant # TenantUnset /\ Call[r].own["tenantId"] = <<>> => Call[r].key # None

PathIsKnown(r, meta) ==
    /\ PrefixOf[req[r].answer.labels] \o UpstreamPath(r) = Call[r].path
    /\ Prefixed(r) => meta["originalPath"] = Call[r].own["originalPath"] \o <<Call[r].path>>

ServiceKnowsCaller ==
    \A r \in Request : req[r].phase = "sent" =>
        LET meta == Headers(r)
        IN  /\ \A local \in LocalUser : UserIsKnown(r, User(meta, local))
            /\ TenantIsKnown(r, GatewayTenant(meta))
            /\ PathIsKnown(r, meta)
            /\ ApiKeyHeader(r) = None

(* Decorators and permissions let the same requests through, whatever      *)
(* roles a view asks for and whoever Django took the caller for; for the   *)
(* tenant this is so when there is a user (drf.py, lines 66-84).           *)
ViewsAndPermissionsAgree ==
    \A r \in Request : req[r].phase = "sent" =>
        LET meta == Headers(r)
        IN  \A local \in LocalUser :
                LET user == User(meta, local)
                IN  /\ RequireGatewayAuth(user) = "view" <=> IsGatewayAuthenticated(user)
                    /\ user.kind = "gateway" =>
                          (RequireTenant(GatewayTenant(meta)) = "view" <=> HasTenant(DrfTenant(meta)))
                    /\ \A roles \in SUBSET RoleNames \ {{}} :
                          /\ RequireRole(user, roles) = "view" <=> HasRole(user, roles)
                          /\ RequireAllRoles(user, roles) = "view" <=> HasAllRoles(user, roles)
================================================================================
