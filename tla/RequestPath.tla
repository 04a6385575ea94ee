------------------------------ MODULE RequestPath ------------------------------
(***************************************************************************)
(* A request on its way through the gateway                                *)
(* (gateway/proxy/forwarder.py): the route is resolved, the token is       *)
(* checked against the provider's key set (gateway/auth/middleware.py),    *)
(* the API key against the loaded keys (gateway/auth/api_keys.py), the     *)
(* body is read and the upstream service called.  Requests interleave      *)
(* where the code awaits; services come and go meanwhile, the provider     *)
(* changes its key set, and the key file is rewritten and reloaded.        *)
(*                                                                         *)
(* A client has one request at a time.  It is `fetching' while its GET for *)
(* the key set is on the way to the provider, `answered' while the answer  *)
(* is on the way back and `closing' while the client of that GET closes;   *)
(* it is `reading' its body, `sent' to the service and `done'.             *)
(***************************************************************************)
EXTENDS RouteRegistry, Integers

CONSTANTS Offers,       \* Offers[labels]: the route lists of a service with these labels
          Request,      \* the clients, each with one request at a time
          Call,         \* Call[r]: method, path, token and API key (or None) of r's requests
          KeySet,       \* documents the provider may answer; None is an empty object
          Verifies,     \* Verifies[token]: the documents with which it decodes
          NeedsToken,   \* NeedsToken[labels]: the routes with _requires_auth()
          NeedsApiKey,  \* the labels with _requires_api_key()
          JwksUrl,      \* whether GATEWAY_AUTH_JWKS_URL is set
          TTL,          \* GATEWAY_AUTH_JWKS_TTL_SECONDS
          MaxFetch,     \* assumption: how long the GET for the key set may take
          KeyFile,      \* [parses, entries] of an api_keys.json, or None for no file
          MaxTime,      \* bound on the clock
          MaxClients    \* bound on the clients that call at all

ASSUME OffersAssumption == Offers \in [Labels -> SUBSET RouteList]
ASSUME TimeAssumption == TTL \in Nat /\ MaxFetch \in Nat /\ MaxTime \in Nat
ASSUME CallAssumption == \A r \in Request : Call[r].token \in DOMAIN Verifies \cup {None}
ASSUME KeyFileAssumption ==
    \A file \in KeyFile \ {None} : /\ file.parses \in BOOLEAN
                                   /\ file.entries \in Seq(Range(file.entries))

VARIABLES req,          \* [Request -> the local variables of forward_request]
          cache,        \* _jwks_cache and _jwks_fetched_at
          clock,        \* time.monotonic()
          published,    \* the document the provider answers now
          lastPublished,\* the last time at which each document was the answer
          keyFile,      \* api_keys.json
          keys          \* _store of gateway.auth.api_keys

providerVars == <<published, lastPublished>>
keyVars      == <<keyFile, keys>>
pathVars     == <<registryVars, req, cache, clock, providerVars, keyVars>>

Phase   == {"idle", "fetching", "answered", "closing", "reading", "sent", "done"}
Outcome == {"none", "refused", "over"}  \* refused: 401, 404; over: any other answer, or no client
Idle    == [phase |-> "idle", answer |-> Unresolved, now |-> 0, reply |-> None,
            used |-> None, claims |-> None, tenant |-> None, outcome |-> "none"]

---------------------------------------------------------------------------
(* API keys.  Entries are [key, tenant] with None for a missing field.  A  *)
(* file does not parse when it is not JSON or when an entry is no object;  *)
(* its entries are then the ones before.  Nothing of it is loaded.         *)
StoreOf(entries) ==
    LET valid == {n \in DOMAIN entries : None \notin {entries[n].key, entries[n].tenant}}
    IN  [key \in {entries[n].key : n \in valid} |->
            entries[Max({n \in valid : entries[n].key = key})].tenant]

NoKeys == [key \in {} |-> None]

LoadInPlace(file, old) ==       \* faulty: the store is filled while the file is read
    IF file = None THEN NoKeys ELSE StoreOf(file.entries)

LoadApiKeys(file, old) == CASE file = None                  -> NoKeys
                            [] file # None /\ file.parses  -> StoreOf(file.entries)
                            [] file # None /\ ~file.parses -> old

(* A request that has ended leaves its outcome, and a refusal what it was  *)
(* judged by.                                                              *)
Ended(outcome) == [Idle EXCEPT !.phase = "done", !.outcome = outcome]

Unauthorized(local) ==
    [Idle EXCEPT !.phase = "done", !.outcome = "refused", !.now = local.now, !.used = local.used]

(* check_api_key(), for the request r with the local variables `local'.    *)
CheckApiKey(r, local) ==
    LET key == Call[r].key
    IN  CASE key = None /\ local.answer.labels \in NeedsApiKey    -> Unauthorized(local)
          [] key = None /\ local.answer.labels \notin NeedsApiKey -> [local EXCEPT !.phase = "reading"]
          [] key # None /\ key \notin DOMAIN keys -> Unauthorized(local)
          [] key # None /\ key \in DOMAIN keys    ->
                [local EXCEPT !.phase = "reading", !.tenant = keys[key]]

(* The end of check_auth(), with the key set doc, and the key check.       *)
CheckToken(r, local, doc) ==
    IF doc \in Verifies[Call[r].token]
    THEN CheckApiKey(r, [local EXCEPT !.used = doc, !.claims = Call[r].token])
    ELSE Unauthorized([local EXCEPT !.used = doc])

---------------------------------------------------------------------------
Never == 0 - TTL - MaxFetch - 1

InitPath ==
    /\ InitRegistry
    /\ req = [r \in Request |-> Idle]
    /\ cache = [doc |-> None, at |-> 0]
    /\ clock = 0
    /\ published \in KeySet
    /\ lastPublished = [doc \in KeySet |-> IF doc = published THEN 0 ELSE Never]
    /\ keyFile \in KeyFile
    /\ keys = LoadApiKeys(keyFile, NoKeys)

Expired == JwksUrl /\ (cache.doc = None \/ clock - cache.at > TTL)

(* r comes, is resolved and goes on to its first await.                    *)
Arrived(r) == [Idle EXCEPT !.answer = Resolve(Call[r].method, Call[r].path)]
Timed(r)   == [Arrived(r) EXCEPT !.now = clock]
Secured(r) == Arrived(r).answer.route \in NeedsToken[Arrived(r).answer.labels]

Comes(r, local) ==
    /\ req' = [req EXCEPT ![r] = local]
    /\ UNCHANGED <<registryVars, cache, clock, providerVars, keyVars>>

NotFound(r) ==
    /\ Arrived(r).answer = Unresolved
    /\ Comes(r, Ended("refused"))

Open(r) ==
    /\ Arrived(r).answer # Unresolved
    /\ ~Secured(r)
    /\ Comes(r, CheckApiKey(r, Arrived(r)))

MissingToken(r) ==
    /\ Arrived(r).answer # Unresolved
    /\ Secured(r)
    /\ Call[r].token = None
    /\ Comes(r, Unauthorized(Arrived(r)))

CachedKeys(r) ==
    /\ Arrived(r).answer # Unresolved
    /\ Secured(r)
    /\ Call[r].token # None
    /\ ~Expired
    /\ Comes(r, CheckToken(r, Timed(r), cache.doc))

FetchKeys(r) ==
    /\ Arrived(r).answer # Unresolved
    /\ Secured(r)
    /\ Call[r].token # None
    /\ Expired
    /\ Comes(r, [Timed(r) EXCEPT !.phase = "fetching"])

Arrive(r) ==
    /\ req[r].phase \in {"idle", "done"}
    /\ Cardinality({r} \cup {t \in Request : req[t].phase # "idle"}) <= MaxClients
    /\ NotFound(r) \/ Open(r) \/ MissingToken(r) \/ CachedKeys(r) \/ FetchKeys(r)

(* Any other step of r, from the phase `from'.                             *)
Goes(r, from, local) ==
    /\ req[r].phase = from
    /\ req' = [req EXCEPT ![r] = local]
    /\ UNCHANGED <<registryVars, clock, providerVars, keyVars>>

ProviderAnswers(r) ==
    /\ Goes(r, "fetching", [req[r] EXCEPT !.phase = "answered", !.reply = published])
    /\ UNCHANGED cache

FetchFailsSilently(r) ==        \* faulty: an error during the GET sends no response
    /\ \E from \in {"fetching", "answered"} : Goes(r, from, [req[r] EXCEPT !.phase = "done"])
    /\ UNCHANGED cache

(* Only errors of the token become a 401: no connection, no answer in time *)
(* or no JSON end in a 500.                                                *)
FetchFails(r) ==
    /\ \E from \in {"fetching", "answered"} : Goes(r, from, Ended("over"))
    /\ UNCHANGED cache

StoreKeysAtArrival(r) ==        \* faulty: the time is read when the answer is there
    /\ Goes(r, "answered", [req[r] EXCEPT !.phase = "closing", !.reply = None])
    /\ cache' = [doc |-> req[r].reply, at |-> clock]

StoreKeys(r) ==
    /\ Goes(r, "answered", [req[r] EXCEPT !.phase = "closing", !.reply = None])
    /\ cache' = [doc |-> req[r].reply, at |-> req[r].now]

(* The client of the GET has closed; what is returned is the cache of now. *)
UseKeys(r) ==
    /\ Goes(r, "closing", CheckToken(r, req[r], cache.doc))
    /\ UNCHANGED cache

ReadBodyResolving(r) ==         \* faulty: the route is looked up again for the call
    /\ Goes(r, "reading", [req[r] EXCEPT !.phase = "sent",
                                         !.answer = Resolve(Call[r].method, Call[r].path)])
    /\ UNCHANGED cache

ReadBody(r) ==
    /\ Goes(r, "reading", [req[r] EXCEPT !.phase = "sent"])
    /\ UNCHANGED cache

ClientLeaves(r) ==
    /\ Goes(r, "reading", Ended("over"))
    /\ UNCHANGED cache

(* The service answers, cannot be reached (502) or takes too long (504).   *)
UpstreamEnds(r) ==
    /\ Goes(r, "sent", Ended("over"))
    /\ UNCHANGED cache

RequestStep(r) == \/ ProviderAnswers(r) \/ FetchFails(r) \/ StoreKeys(r) \/ UseKeys(r)
                  \/ ReadBody(r) \/ ClientLeaves(r) \/ UpstreamEnds(r)

---------------------------------------------------------------------------
(* Time passes, but no GET for the key set takes longer than MaxFetch.     *)
Refreshing(r) == req[r].phase \in {"fetching", "answered", "closing"}

Tick ==
    /\ clock < MaxTime
    /\ \A r \in Request : Refreshing(r) => clock < req[r].now + MaxFetch
    /\ clock' = clock + 1
    /\ lastPublished' = [lastPublished EXCEPT ![published] = clock + 1]
    /\ UNCHANGED <<registryVars, req, cache, published, keyVars>>

(* The provider publishes another document: new keys, or an error.         *)
Publish ==
    /\ \E doc \in KeySet \ {published} :
          /\ published' = doc
          /\ lastPublished' = [lastPublished EXCEPT ![doc] = clock]
    /\ UNCHANGED <<registryVars, req, cache, clock, keyVars>>

EditKeyFile ==
    /\ keyFile' \in KeyFile \ {keyFile}
    /\ UNCHANGED <<registryVars, req, cache, clock, providerVars, keys>>

ReloadApiKeys ==
    /\ keys' = LoadApiKeys(keyFile, keys)
    /\ UNCHANGED <<registryVars, req, cache, clock, providerVars, keyFile>>

(* What discovery does: a service has the routes that its labels allow.    *)
Discover ==
    /\ \E sid \in ServiceId :
          \/ \E labels \in Labels : \/ \E routes \in Offers[labels] : Register(sid, routes, labels)
                                   \/ RegisterError(sid, labels)
          \/ Deregister(sid)
    /\ UNCHANGED <<req, cache, clock, providerVars, keyVars>>

NextPath == \/ \E r \in Request : Arrive(r) \/ RequestStep(r)
            \/ Tick \/ Publish \/ EditKeyFile \/ ReloadApiKeys \/ Discover

SpecPath == InitPath /\ [][NextPath]_pathVars

---------------------------------------------------------------------------
(* Types, and what each phase leaves unset.                                *)
Tenants == UNION {{file.entries[n].tenant : n \in DOMAIN file.entries} : file \in KeyFile \ {None}}

PathOK ==
    /\ RegistryOK
    /\ req \in [Request -> [phase : Phase, answer : [owner : ServiceId \cup {None},
                                                     route : Route \cup {<<>>},
                                                     labels : Labels \cup {None}],
                            now : 0..clock, reply : KeySet \cup {None}, used : KeySet \cup {None},
                            claims : DOMAIN Verifies \cup {None}, tenant : Tenants \cup {None},
                            outcome : Outcome]]
    /\ cache \in [doc : KeySet \cup {None}, at : 0..clock]
    /\ clock \in 0..MaxTime
    /\ published \in KeySet
    /\ lastPublished \in [KeySet -> Int]
    /\ keyFile \in KeyFile
    /\ \A r \in Request : /\ req[r].outcome # "none" <=> req[r].phase = "done"
                          /\ req[r].reply # None => req[r].phase = "answered"

(* The key set a request was judged by was still what the provider         *)
(* answered within the TTL before the request, or within the time a GET    *)
(* may take when that is longer, although concurrent refreshes store their *)
(* answers in any order and a request may return what another one stored   *)
(* (middleware.py, lines 13-22).  A withdrawn key does not outlive this    *)
(* bound, and a newer set that an older answer replaces is missed no       *)
(* longer.                                                                 *)
BoundedStaleness ==
    \A r \in Request : req[r].used # None =>
        \/ lastPublished[req[r].used] + TTL >= req[r].now
        \/ lastPublished[req[r].used] + MaxFetch >= req[r].now

(* A request reaches a service only under the policy of the entry it is    *)
(* routed by, whatever was registered, reloaded or refreshed between its   *)
(* checks and its call (forwarder.py, lines 27-68).                        *)
AdmittedByPolicy ==
    \A r \in Request : req[r].phase \in {"reading", "sent"} =>
        LET answer == req[r].answer
        IN  /\ answer # Unresolved
            /\ answer.route \in NeedsToken[answer.labels] => req[r].claims # None
            /\ answer.labels \in NeedsApiKey => req[r].tenant # None
            /\ Call[r].key # None => req[r].tenant # None

(* Loading is all or nothing: a key is forgotten or changes its tenant     *)
(* only when a file says so that parses as a whole, or when there is no    *)
(* file (api_keys.py, lines 42-68).                                        *)
KeysFollowFile ==
    [][\A key \in DOMAIN keys :
          \/ key \in DOMAIN keys' /\ keys'[key] = keys[key]
          \/ keyFile = None
          \/ keyFile.parses /\ keys' = StoreOf(keyFile.entries)]_pathVars
================================================================================
