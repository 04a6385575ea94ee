------------------------------- MODULE MergedDocs -------------------------------
(***************************************************************************)
(* What the gateway tells of its registry: the merged OpenAPI document     *)
(* (gateway/api/docs.py) and the views behind the admin endpoints          *)
(* (gateway/registry/route_registry.py, gateway/api/admin.py).             *)
(*                                                                         *)
(* The registry keeps, besides the routes, the document they come from and *)
(* the name their service had then.  Of a route, the views also use the    *)
(* path with its prefix and parameters spelt out, and whether the method   *)
(* is a key of the path item in lower case; of an operation the schemas it *)
(* refers to and the fields of its path item.  A schema key is             *)
(* <<slug, name>>, with None for a key without a slug.                     *)
(***************************************************************************)
EXTENDS RouteRegistry

CONSTANTS OpenApi,      \* the documents of services
          Listing,      \* Listing[doc]: its routes, as [route, listed, shown, refs, fields]
          Schemas,      \* Schemas[doc]: the names under components.schemas
          NamesOf,      \* NamesOf[sid][labels]: names that the labels and the container give
          SlugOf,       \* SlugOf[name]: _safe_prefix()
          NeedsToken,   \* NeedsToken[labels]: the routes with _requires_auth(), by path and method
          NeedsApiKey,  \* the labels with _requires_api_key()
          AuthRequired, ApiKeyRequired  \* GATEWAY_AUTH_REQUIRED, GATEWAY_API_KEY_REQUIRED

VARIABLES rawSpec,      \* [ServiceId -> the document of a healthy entry, or None]
          serviceName   \* [ServiceId -> the name of an entry, or None]

docsVars == <<registryVars, rawSpec, serviceName>>

Names == UNION {UNION {NamesOf[sid][labels] : labels \in Labels} : sid \in ServiceId}

Extracted(doc) == [n \in DOMAIN Listing[doc] |-> Listing[doc][n].route]

ASSUME ExtractedAssumption == \A doc \in OpenApi : Extracted(doc) \in RouteList
ASSUME OpenApiAssumption   == None \notin OpenApi
ASSUME NamesAssumption     == \A sid \in ServiceId, labels \in Labels : None \notin NamesOf[sid][labels]

(* What is exposed is the glob of the shown path (_path_to_glob), which is *)
(* the documented one after a prefix; the fields of an operation are those *)
(* of its path item.                                                       *)
ASSUME ShownAssumption ==
    /\ \A doc1, doc2 \in OpenApi :
          \A a \in Range(Listing[doc1]), b \in Range(Listing[doc2]) :
              a.shown = b.shown => a.route.exposed = b.route.exposed
    /\ \A doc \in OpenApi :
          \A a, b \in Range(Listing[doc]) :
              a.shown = b.shown => a.fields = b.fields /\ a.route.path = b.route.path

---------------------------------------------------------------------------
InitDocs == /\ InitRegistry
            /\ rawSpec = [sid \in ServiceId |-> None]
            /\ serviceName = [sid \in ServiceId |-> None]

RegisterSpecAlways(sid, doc, labels, name) ==   \* faulty: a blocked service keeps its document
    /\ Register(sid, Extracted(doc), labels)
    /\ rawSpec' = [rawSpec EXCEPT ![sid] = doc]
    /\ serviceName' = [serviceName EXCEPT ![sid] = name]

RegisterSpec(sid, doc, labels, name) ==
    /\ Register(sid, Extracted(doc), labels)
    /\ rawSpec' = [rawSpec EXCEPT ![sid] = IF Conflicts(sid, Extracted(doc)) = {} THEN doc ELSE None]
    /\ serviceName' = [serviceName EXCEPT ![sid] = name]

RegisterErrorSpec(sid, labels, name) ==
    /\ RegisterError(sid, labels)
    /\ rawSpec' = [rawSpec EXCEPT ![sid] = None]
    /\ serviceName' = [serviceName EXCEPT ![sid] = name]

DeregisterSpec(sid) ==
    /\ Deregister(sid)
    /\ rawSpec' = [rawSpec EXCEPT ![sid] = None]
    /\ serviceName' = [serviceName EXCEPT ![sid] = None]

NextDocs ==
    \E sid \in ServiceId :
        \/ \E labels \in Labels : \E name \in NamesOf[sid][labels] :
              \/ \E doc \in OpenApi : RegisterSpec(sid, doc, labels, name)
              \/ RegisterErrorSpec(sid, labels, name)
        \/ DeregisterSpec(sid)

SpecDocs == InitDocs /\ [][NextDocs]_docsVars

---------------------------------------------------------------------------
(* The merged document.  Services are merged in the order of the           *)
(* dictionary, each with its routes in their order: <<i, n>> is the place  *)
(* of the n-th route of the i-th entry.  A route is passed over when its   *)
(* path item has the method, but not in lower case.  Of two operations at  *)
(* one path and method the last is kept, of two path items at one path the *)
(* fields of the first, of two schemas of one name the last.               *)
Healthy(sid)  == store[sid].status = "ok" /\ rawSpec[sid] # None
ServiceSpecs  == {i \in DOMAIN order : Healthy(order[i])}

Listed(doc) == {n \in DOMAIN Listing[doc] : Listing[doc][n].listed}

Items(i) == {[place |-> <<i, n>>, owner |-> order[i], labels |-> store[order[i]].labels,
              op |-> Listing[rawSpec[order[i]]][n]] : n \in Listed(rawSpec[order[i]])}

Merged == UNION {Items(i) : i \in ServiceSpecs}

Before(a, b) == \/ a.place[1] < b.place[1]
                \/ a.place[1] = b.place[1] /\ a.place[2] < b.place[2]

ItemsAt(path) == {item \in Merged : item.op.shown = path}

Operations == {item \in Merged :
                  ~ \E later \in ItemsAt(item.op.shown) :
                        later.op.route.method = item.op.route.method /\ Before(item, later)}

PathFieldsOfFirst(path) ==      \* faulty: the fields are taken once, before the loop
    (CHOOSE item \in Merged : ~ \E earlier \in Merged : Before(earlier, item)).op.fields

PathFields(path) ==
    (CHOOSE item \in ItemsAt(path) : ~ \E earlier \in ItemsAt(path) : Before(earlier, item)).op.fields

(* The "security" of an operation, or "own" when it is left as it is.      *)
SecurityOfFirstRoute(item) ==      \* faulty: what the service's first route needs goes for all
    [bearerAuth |-> store[item.owner].routes[1] \in NeedsToken[item.labels],
     apiKeyAuth |-> ApiKeyRequired /\ item.labels \in NeedsApiKey]

Security(item) ==
    IF AuthRequired \/ ApiKeyRequired
    THEN [bearerAuth |-> item.op.route \in NeedsToken[item.labels],
          apiKeyAuth |-> ApiKeyRequired /\ item.labels \in NeedsApiKey]
    ELSE "own"

Refs(item) == {<<SlugOf[serviceName[item.owner]], schema>> : schema \in item.op.refs}

SchemaKeys == {<<None, schema>> : schema \in UNION {Schemas[rawSpec[order[i]]] : i \in ServiceSpecs}}

---------------------------------------------------------------------------
(* The other views.  status() is keyed by the name that an entry keeps: a  *)
(* later entry of the same name replaces an earlier one.                   *)
StatusOf(name) == order[Max({i \in DOMAIN order : serviceName[order[i]] = name})]

Shown(sid) == Registered(sid) /\ StatusOf(serviceName[sid]) = sid

AllRoutes == UNION {Range(store[sid].routes) : sid \in Range(order)}

---------------------------------------------------------------------------
(* An entry has the document that its routes come from, and none when it   *)
(* is no healthy one; it has a name as long as it is there                 *)
(* (route_registry.py, lines 26-70).                                       *)
EntriesKeepDocs ==
    /\ rawSpec \in [ServiceId -> OpenApi \cup {None}]
    /\ serviceName \in [ServiceId -> Names \cup {None}]
    /\ \A sid \in ServiceId :
          /\ store[sid].status = "ok" <=> rawSpec[sid] # None
          /\ rawSpec[sid] # None => store[sid].routes = Extracted(rawSpec[sid])
          /\ Registered(sid) <=> serviceName[sid] # None

(* And so the merged document lists routes that /routes lists, and all of  *)
(* them but those whose method is no key of the path item in lower case    *)
(* (route_registry.py, lines 84-117; docs.py, lines 81-111).               *)
DocsOK ==
    /\ EntriesKeepDocs
    /\ {item.op.route : item \in Merged} \subseteq AllRoutes
    /\ \A sid \in ServiceId : \A n \in DOMAIN store[sid].routes :
          n \in Listed(rawSpec[sid]) <=>
              \E item \in Merged : item.owner = sid /\ item.op = Listing[rawSpec[sid]][n]

(* What the document says of a request is what happens to it, for requests *)
(* that one pattern only matches: whatever is documented for it belongs to *)
(* the service that answers it; the route that answers is among it, when   *)
(* it is listed at all; and of that route the document asks for the token  *)
(* and the key that the gateway asks for (docs.py, lines 70-111).  Another *)
(* documented path with the same glob has demands of its own.  The key of  *)
(* a service that needs one by its label only is not documented, so keys   *)
(* are compared when they are required of all.                             *)
Documents(m, p) == {item \in Operations : /\ item.op.route.method = m
                                          /\ p \in Matches[item.op.route.exposed]}

ListsRoute(sid, route) == \E n \in Listed(rawSpec[sid]) : Listing[rawSpec[sid]][n].route = route

AsksFor(item, labels, route) ==
    /\ AuthRequired \/ ApiKeyRequired =>
          Security(item).bearerAuth = (route \in NeedsToken[labels])
    /\ ApiKeyRequired => Security(item).apiKeyAuth = (labels \in NeedsApiKey)

ServedAsDocumented ==
    \A m \in Method, p \in Path : Unambiguous(p) =>
        LET answer    == Resolve(m, p)
            documents == Documents(m, p)
        IN  /\ \A item \in documents : item.owner = answer.owner
            /\ answer # Unresolved /\ ListsRoute(answer.owner, answer.route) =>
                  \E item \in documents : item.op.route = answer.route
            /\ \A item \in documents :
                  item.op.route = answer.route => AsksFor(item, answer.labels, answer.route)

(* An operation keeps the fields of its path item (shared parameters, say) *)
(* when no other service exposes that path (docs.py, lines 91-94).         *)
PathFieldsKept ==
    \A item \in Operations :
        {other.owner : other \in ItemsAt(item.op.shown)} = {item.owner}
            => PathFields(item.op.shown) = item.op.fields

(* Every reference of the merged document leads to one of its schemas:     *)
(* "schemas are namespaced per service" (README.md, line 377).             *)
RefsResolve == \A item \in Operations : Refs(item) \subseteq SchemaKeys

(* A service that status() shows stays there until it takes another name   *)
(* or another service takes its name, as a newcomer or by a new label;     *)
(* services that are there under the same name already do not hide it,     *)
(* whatever becomes of them (route_registry.py, lines 97-108).             *)
ShownUntilNameTaken ==
    [][\A sid \in ServiceId :
          Shown(sid) /\ Registered(sid)' /\ ~Shown(sid)' =>
              \/ serviceName'[sid] # serviceName[sid]
              \/ \E t \in ServiceId \ {sid} : /\ serviceName'[t] = serviceName[sid]
                                              /\ serviceName[t] # serviceName[sid]]_docsVars
================================================================================
