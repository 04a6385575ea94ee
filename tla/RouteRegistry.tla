----------------------------- MODULE RouteRegistry -----------------------------
(***************************************************************************)
(* The in-memory route registry (gateway/registry/route_registry.py).      *)
(*                                                                         *)
(* Every method of RouteRegistry runs under one re-entrant lock, so each   *)
(* is one action.  The dictionary _store is modelled by two variables:     *)
(* `store' holds the ServiceEntry of each id (NoEntry when the id is not a *)
(* key) and `order' holds the ids in the insertion order of the            *)
(* dictionary, which is the order in which resolve() searches them.        *)
(* Overwriting the value of a key keeps its position; popping a key and    *)
(* inserting it again moves it to the end.                                 *)
(*                                                                         *)
(* Of a route the method, the documented path and the exposed path are     *)
(* kept, the last being a glob; labels are opaque.  error and error_reason *)
(* are one field, status.                                                  *)
(***************************************************************************)
EXTENDS Naturals, Sequences, SequencesExt

CONSTANTS ServiceId,    \* registry ids: container ids, "service:<id>", "manual:<name>"
          Method,       \* HTTP methods
          DocPath,      \* documented paths
          Pattern,      \* exposed paths, which are fnmatch globs
          Path,         \* concrete request paths
          Matches,      \* Matches[pat]: the paths that fnmatch accepts for pat
          Labels,       \* label sets of services
          RouteList,    \* the route lists that discovery can produce
          None          \* no service, no labels, no document

Route == [method : Method, path : DocPath, exposed : Pattern]
Key   == [method : Method, exposed : Pattern]

ASSUME MatchesAssumption   == Matches \in [Pattern -> SUBSET Path]
ASSUME RouteListAssumption == RouteList \subseteq Seq(Route)
ASSUME NoneAssumption      == None \notin Labels \cup ServiceId

VARIABLES store,        \* [ServiceId -> Entry]
          order         \* the registered ids, oldest insertion first

registryVars == <<store, order>>

Status == {"absent", "ok", "filter_conflict", "path_conflict"}
Entry  == [status : Status, routes : RouteList \cup {<<>>},
           labels : Labels \cup {None}]
NoEntry == [status |-> "absent", routes |-> <<>>, labels |-> None]

HealthyEntry(routes, labels) == [status |-> "ok", routes |-> routes, labels |-> labels]
ErrorEntry(reason, labels)   == [status |-> reason, routes |-> <<>>, labels |-> labels]

Registered(sid) == store[sid].status # "absent"

---------------------------------------------------------------------------
(* The keys of a route list, and the ones a healthy service other than sid *)
(* already exposes.  Keys are compared literally, not as patterns; two     *)
(* documented paths may have one key.                                      *)
KeyOf(route) == [method |-> route.method, exposed |-> route.exposed]

Keys(routes) == {KeyOf(route) : route \in Range(routes)}

Taken(sid) == UNION {Keys(store[s].routes) : s \in {t \in ServiceId \ {sid} :
                                                      store[t].status = "ok"}}

ConflictsOfNewcomer(sid, routes) ==     \* faulty: re-registration is not checked
    IF Registered(sid) THEN {} ELSE Keys(routes) \cap Taken(sid)

Conflicts(sid, routes) == Keys(routes) \cap Taken(sid)

PutAppends(sid, entry) ==       \* faulty: a re-registration is listed again
    /\ store' = [store EXCEPT ![sid] = entry]
    /\ order' = Append(order, sid)

PutLast(sid, entry) ==          \* faulty: a re-registration moves the id to the end
    /\ store' = [store EXCEPT ![sid] = entry]
    /\ order' = Append(Remove(order, sid), sid)

PutFirst(sid, entry) ==         \* faulty: the newest id is searched first
    /\ store' = [store EXCEPT ![sid] = entry]
    /\ order' = IF Registered(sid) THEN order ELSE <<sid>> \o order

(* Dictionary assignment and removal.                                      *)
Put(sid, entry) ==
    /\ store' = [store EXCEPT ![sid] = entry]
    /\ order' = IF Registered(sid) THEN order ELSE Append(order, sid)

Pop(sid) ==
    /\ store' = [store EXCEPT ![sid] = NoEntry]
    /\ order' = RemoveFirst(order, sid)

---------------------------------------------------------------------------
HitsOfAnyMethod(sid, method, path) ==   \* faulty: the method is not compared
    {i \in DOMAIN store[sid].routes : path \in Matches[store[sid].routes[i].exposed]}

(* A request is answered by the first route that matches, searching the    *)
(* healthy entries in insertion order and the routes of each in list       *)
(* order.  Resolve is the (owner, route, labels) triple or Unresolved.     *)
Hits(sid, method, path) ==
    {i \in DOMAIN store[sid].routes :
        /\ store[sid].routes[i].method = method
        /\ path \in Matches[store[sid].routes[i].exposed]}

Answering(method, path) ==
    {n \in DOMAIN order : /\ store[order[n]].status = "ok"
                          /\ Hits(order[n], method, path) # {}}

Unresolved == [owner |-> None, route |-> <<>>, labels |-> None]

Resolve(method, path) ==
    IF Answering(method, path) = {} THEN Unresolved
    ELSE LET sid == order[Min(Answering(method, path))]
         IN  [owner  |-> sid,
              route  |-> store[sid].routes[Min(Hits(sid, method, path))],
              labels |-> store[sid].labels]

---------------------------------------------------------------------------
InitRegistry == /\ store = [sid \in ServiceId |-> NoEntry]
                /\ order = <<>>

(* register(): a list that collides with another healthy service replaces  *)
(* the caller's own entry by an error entry, which exposes nothing.        *)
RegisterHealthy(sid, routes, labels) ==
    /\ Conflicts(sid, routes) = {}
    /\ Put(sid, HealthyEntry(routes, labels))

RegisterEvicts(sid, routes, labels) ==  \* faulty: the newcomer wins, the owner is blocked
    /\ Conflicts(sid, routes) # {}
    /\ store' = [s \in ServiceId |->
                    IF s = sid THEN HealthyEntry(routes, labels)
                    ELSE IF store[s].status = "ok" /\ Keys(store[s].routes) \cap Keys(routes) # {}
                    THEN ErrorEntry("path_conflict", store[s].labels)
                    ELSE store[s]]
    /\ order' = IF Registered(sid) THEN order ELSE Append(order, sid)

RegisterBlocked(sid, routes, labels) ==
    /\ Conflicts(sid, routes) # {}
    /\ Put(sid, ErrorEntry("path_conflict", labels))

Register(sid, routes, labels) == \/ RegisterHealthy(sid, routes, labels)
                                 \/ RegisterBlocked(sid, routes, labels)

RegisterError(sid, labels) == Put(sid, ErrorEntry("filter_conflict", labels))

(* deregister() is a no-op for an id that is not a key.                    *)
Deregister(sid) == IF Registered(sid) THEN Pop(sid) ELSE UNCHANGED registryVars

NextRegistry ==
    \E sid \in ServiceId :
        \/ \E routes \in RouteList, labels \in Labels : Register(sid, routes, labels)
        \/ \E labels \in Labels : RegisterError(sid, labels)
        \/ Deregister(sid)

SpecRegistry == InitRegistry /\ [][NextRegistry]_registryVars

---------------------------------------------------------------------------
(* Types, and the agreement of the two halves of the dictionary: `order'   *)
(* lists every registered id once and no other, and only healthy entries   *)
(* carry routes.                                                           *)
TypeOKRegistry ==
    /\ store \in [ServiceId -> Entry]
    /\ order \in Seq(ServiceId)

OrderOK ==
    /\ IsInjective(order)
    /\ Range(order) = {sid \in ServiceId : Registered(sid)}

ErrorsExposeNothing ==
    \A sid \in ServiceId : store[sid].status # "ok" => store[sid].routes = <<>>

RegistryOK == TypeOKRegistry /\ OrderOK /\ ErrorsExposeNothing

(* No two healthy services expose the same method and exposed path, in     *)
(* whatever order registrations, re-registrations with other routes,       *)
(* configuration errors and departures arrive (register, line 29).         *)
SingleOwner ==
    \A s, t \in ServiceId :
        /\ s # t
        /\ store[s].status = "ok"
        /\ store[t].status = "ok"
        => Keys(store[s].routes) \cap Keys(store[t].routes) = {}

(* A service that enters the registry never changes the answer to a        *)
(* request that was already resolved, even when its globs overlap the      *)
(* existing ones: new ids are searched last (resolve, line 75).            *)
NewcomerNeverShadows ==
    [][\A m \in Method, p \in Path :
          \A sid \in ServiceId :
              /\ ~Registered(sid)
              /\ Registered(sid)'
              /\ Resolve(m, p) # Unresolved
              => Resolve(m, p)' = Resolve(m, p)]_registryVars

(* As long as the entry that answers a request is not touched, the request *)
(* keeps being answered by it: what the other services do, blocked or not, *)
(* does not affect an existing service (README, "Error states").           *)
KeepsAnswering(method, path) ==
    LET answer == Resolve(method, path)
    IN  /\ answer # Unresolved
        /\ store'[answer.owner] = store[answer.owner]
        => Resolve(method, path)' = answer

ExistingServiceUnaffected ==
    [][\A m \in Method, p \in Path : KeepsAnswering(m, p)]_registryVars

(* This is so for the requests that one pattern only matches, for which    *)
(* the literal comparison of keys (line 127) is the right one.             *)
Unambiguous(path) ==
    \A pat1, pat2 \in Pattern : path \in Matches[pat1] \cap Matches[pat2] => pat1 = pat2

UnambiguousUnaffected ==
    [][\A m \in Method, p \in Path : Unambiguous(p) => KeepsAnswering(m, p)]_registryVars

(***************************************************************************)
(* The registry implements the table of owners: the owner of a key is the  *)
(* healthy service that exposes it.                                        *)
(***************************************************************************)
Exposes(sid, k) == store[sid].status = "ok" /\ k \in Keys(store[sid].routes)

Owner(k) == IF \E sid \in ServiceId : Exposes(sid, k)
            THEN CHOOSE sid \in ServiceId : Exposes(sid, k)
            ELSE None

OwnerTable == [k \in Key |-> Owner(k)]

Table == INSTANCE OwnershipTable WITH Key <- Key, Nobody <- None, owner <- OwnerTable,
                                      KeySets <- {Keys(routes) : routes \in RouteList}

(* Every behaviour of the registry is one of the table of owners: a step   *)
(* changes the keys of one service only, which then has all those of one   *)
(* route list or, after a collision, none, and no key goes from a healthy  *)
(* service straight to another (route_registry.py, lines 26-70).           *)
ImplementsOwnershipTable == Table!Spec
================================================================================
