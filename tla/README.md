# A TLA+ model of openapi-gateway

This directory models the gateway under `src/gateway`: an API gateway that watches
Docker, fetches the OpenAPI document of every service that opts in by a label, filters
its operations by further labels, and forwards requests to the service that exposes the
matching route, after checking a token and an API key where the labels ask for them. It
also models `src/clients/django_gateway`, with which a service reads who its caller is.
The modules are read with the source beside them; `PROJECT.json` names the lines behind
each definition.

Run the checks from this directory:

    tlc -workers 2 -config Registry.cfg MCRouteRegistry     # one of the runs below
    tlapm RouteRegistryProofs.tla                           # one of the proof modules

## 1. Inventory

### Components, their state and their operations

| component | source | state | operations | modelled by |
|---|---|---|---|---|
| route registry | `registry/route_registry.py` | `_store`, an ordered dictionary of entries, under one re-entrant lock | `register`, `register_error`, `deregister`, `resolve`; the views `status`, `all_routes`, `service_specs` | `RouteRegistry`, `OwnershipTable`, `MergedDocs` (documents and views) |
| docker watcher | `discovery/docker_watcher.py` | the loop's position, the scan's list, the gateway's networks, the event stream | `watch_docker_events`, `_blocking_watch` and its handlers, `rediscover` | `Discovery` |
| openapi fetcher | `discovery/openapi_fetcher.py` | one task per call: labels, attempt, answer | `fetch_and_register` | `Discovery` (tasks), `LabelFilter` (routes) |
| labels and filters | `labels.py`, `registry/filter.py` | none | `get`, `is_enabled`, `has_prefix`, `parse_csv`, `parse_labels`, `apply_filter` | `LabelFilter`, `LabelEdits` |
| manual services | `discovery/manual_loader.py`, `config/schema.py` | the file; per load, the services still to fetch | `load_manual_config`, `reload_manual_config`, `_service_to_labels` | `ManualConfig`, `ManualEntry` |
| application start | `main.py` | none | `lifespan`: keys, manual load, then the watcher | `RequestPath` (keys), `ManualConfig` (boot order); in part |
| admin endpoints | `api/admin.py` | none | `/status`, `/routes`, `/reload`, `/rediscover`, `/api-keys/reload` | `/rediscover`: `Discovery`; `/reload`: `ManualConfig`; `/api-keys/reload`: `RequestPath`; the views: `MergedDocs`; in part |
| request forwarding | `proxy/forwarder.py` | per request: the resolved route, claims, tenant | `forward_request` | `RequestPath`; the headers: `ClientIdentity` |
| JWT authentication | `auth/middleware.py` | the key set and its time stamp, two module globals | `check_auth`, `_get_jwks`, `_requires_auth`, `inject_claims_headers` | `RequestPath`; the decision: `AccessPolicy`; the headers: `ClientIdentity` |
| API keys | `auth/api_keys.py` | the key table | `load_api_keys`, `check_api_key` | `RequestPath`; the decision: `AccessPolicy` |
| merged documentation | `api/docs.py` | none | `build_merged_spec` | `MergedDocs` |
| Django client | `src/clients/django_gateway` | none; attributes of the request | the middleware, the REST framework classes, the decorators | `ClientIdentity` |
| settings | `settings.py` | constants of the process | | CONSTANTS |

### How they interact

* The registry is the state that all parts share (beside it, requests share the key cache
  and the key table). It is written by fetch tasks (on the
  asyncio loop), by the event handlers (`deregister`, in an executor thread) and by
  reloads, and read by every request. Its methods hold one lock, so each is one step.
* `watch_docker_events` loops: scan in a thread, create one task per object found,
  then hand the event stream to a thread until it ends or raises. A `start` event
  schedules a fetch on the loop; a `die` event deregisters at once, in the thread.
* `fetch_and_register` suspends at the GET and at the back-off sleep. Between an answer
  and the registration nothing else of the loop runs, but the thread may. Nothing limits
  or orders the tasks of one id, and nothing cancels them.
* `/rediscover` runs the same scan as the loop, concurrently with it; `/reload`
  deregisters all manual services and fetches them one by one; two requests may overlap.
* Boot: the keys and the manual services are loaded before the watcher starts and the
  first request is served.
* A request runs on the loop and yields to others at four places: the GET for the key
  set, the end of the `async with` around that GET, the reading of its body, and the call
  of the service. Between any two of them services may come and go, another request may
  replace the key set, and the key table may be reloaded. The request goes on with the
  route, labels, claims and tenant it found before.
* The merged document and the admin views read the registry of the moment. A Django
  service knows nothing but the headers of the forwarded request: the ones the gateway
  wrote, beside the ones the request came with.

### What is hard here

1. Order. A fetch in flight when its service stops, is updated or starts again; several
   fetches for one id; a blocked service whose blocker leaves; a newcomer whose globs
   overlap those of others.
2. Lost events: between scan and subscription, when the stream breaks, when a container
   is gone before it is inspected.
3. Partial failure: attempts used up, a document that cannot be read, a Swarm listing
   that fails, a file that does not parse.
4. Two levels of labels with fallback, except for one label; two kinds of filters that
   exclude each other across levels.
5. A request judged at one moment and forwarded at a later one; a key set that several
   requests refresh at once and whose answers arrive in any order; a key file that does
   not parse.
6. The same fact decided twice: what a request needs, by the forwarder and by the merged
   document; who the caller is, by the middleware, by decorators and by permissions.

What would make each component correct: one owner per method and path, and requests that
other services do not disturb (registry); every registered object was admitted, entries hold routes and labels that
belong together, fetches end, the watcher recovers, starts and stops take effect
(discovery); the exposed routes are those the README documents (labels and filters);
a load ends and leaves the services of its file (manual services); a request reaches a
service only under the policy of the entry it was routed by, and by keys that are not too
old (forwarding, authentication); the document says what requests meet (documentation);
the service learns the caller that was checked (client). `PROJECT.json` lists the hazards
at their lines with the properties that cover them.

## 2. Modules

    OwnershipTable      abstract: a table from keys to owners
       ^ implemented by
    RouteRegistry       the registry                 <--  RouteRegistryProofs
       ^ EXTENDS, used through its operations
       |-- Discovery     watcher, fetches, Docker     <--  DiscoveryProofs
       |-- ManualConfig  boot load and reloads        <--  ManualConfigProofs
       |-- MergedDocs    documents, merged, views     <--  MergedDocsProofs
       |-- RequestPath   requests, tokens, API keys   <--  RequestPathProofs
              ^ EXTENDS
           ClientIdentity  headers, written and read  <--  ClientIdentityProofs
    Selection           the elements of a sequence that are in a set
       ^ EXTENDS, also by ManualConfig
    LabelFilter         labels -> routes
       ^ EXTENDS
    AccessPolicy        labels -> demands on a request, address
       ^ EXTENDS
    ManualEntry         an entry of services.json -> labels
       ^ EXTENDS
    LabelEdits          labels or an entry, edited one at a time  <--  LabelFilterProofs
    SequenceLemmas      lemmas on sequences and selections, for the proof modules
    MC*                 instances for TLC

**RouteRegistry.** `store` is the value of each id (`NoEntry` when the id is no key),
`order` the insertion order of the dictionary, which is the order `resolve()` searches.
The four writing methods are the actions `RegisterHealthy`/`RegisterBlocked`,
`RegisterError` and `Deregister`; `Put` keeps the position of a key that is overwritten
and `Pop` loses it, as a Python dictionary does. `Matches` gives the paths that fnmatch
accepts for a pattern, so that patterns can overlap without being equal. A route has its
documented path beside the exposed one: conflicts, keys and matching look at the exposed
glob, overrides of the token at the documented path (`middleware.py:39`), and two documented
paths such as `/items/{id}` and `/items/{name}` have one glob.

**OwnershipTable** is the promise: each key (a method and an exposed path) has at most
one owner, a step gives one service all the keys of a route list or none, touches no other
service's, and a key is free before it changes hands. The refinement mapping gives a key to the healthy service exposing it.

**MergedDocs** adds to the registry the document and the service name that each entry keeps
(`raw_spec` and `service_name`, arguments of `register`): its actions are those of the
registry with both. The name is resolved at each registration from the labels and the
container's name, so `NamesOf[sid][labels]` is a set, and an entry may change its name. A
route whose method is no key of its path item in lower case is in the registry and not in
the document (`listed`; `openapi_fetcher.py:48,54` upper-case the key, `docs.py:85,88` look up
the lower-case one). The
rest are operators on the state, as the code has them: the operations, path fields,
security, references and schemas of `build_merged_spec`, and the views `status` and
`all_routes`. An item of the document knows its place, the position of its service in the
dictionary and of its route in the service's list; the loops of the code visit the items
in the order of these places (`Before`), so that the last one at a path and method is the
one that stays, and the first at a path gives its fields.

**RequestPath** follows each client's request through `forward_request`. An action is a
stretch of code between two awaits: `Arrive` resolves and runs up to the first await,
through both checks when the cache is fresh (`CachedKeys`) or the route needs no token
(`Open`); `FetchKeys` sends a GET for the key set, `ProviderAnswers` is the moment the
provider answers, `StoreKeys` the assignment of both globals when the answer is parsed,
with the time read *before* the GET, and `UseKeys` the return of the global, whoever has
stored it by then, followed by the checks; then `ReadBody`, and `UpstreamEnds` for answer,
error and time-out of the service. `req[r]` holds the local variables. Around requests,
time passes (`Tick`), the provider publishes another key set, the key file is rewritten
and reloaded (`LoadApiKeys`), and the registry takes any of its steps (`Discover`), with
route lists that a service of these labels may offer (`Offers`).

**AccessPolicy** has `_requires_auth`, the override list and the requirement of a key as
operators over label records, and the address labels.

**ClientIdentity** gives the headers and the path of a forwarded request as functions of
`req[r]`: each header has the lines that the request came with (`Call[r].own`), which
`forwarder.py:36` passes on, followed by the one the gateway writes. It reads them back as the Django middleware and the REST framework class do;
decorators and permissions are operators over what was read.

**Discovery** has as actors the Docker daemon (`DockerStart`, `DockerStop`,
`DockerDestroy`, `ServiceRemove`, `DockerUpdate`), the watcher loop (`ScanContainers`,
`ScanServices`, `LaunchScanned`, `Subscribe`), its event thread (`TakeEvent` or
`IgnoreEvent`, which inspect; `HandleUp`, `HandleDown`, which act, so that others run in
between; `HandleServiceRemoved`), the rediscover endpoint (the same scan,
`LaunchRediscovered`) and the fetch tasks (`FetchReject`, `FetchAnswer`,
`FetchRegister`, `FetchRetry`, `FetchGiveUp`). `FetchAnswer` is the moment the service
sends its document, `FetchRegister` the moment it has arrived and is registered.
`ScanFails` and `StreamBreaks` are the exceptions the loop catches. Labels that a task
carries are the ones its creator read. What may fail is the constant `Failures`; a
connection to something that does not run always fails. `onNet` says whether an object
shares a network with the gateway, `netFilter` whether the gateway found its networks.

**LabelFilter** translates `labels.py`, `filter.py` and the route extraction into
operators over label records (each label has a value under the namespace and one
without). The loop that keeps routes is `Among` of **Selection**, which `ManualConfig`
uses for the order of a dictionary from which keys are dropped. `Documented` is the README's account of the same thing, written separately.
**LabelEdits** puts the labels of a service, or its entry, under edit, so that properties
can relate the routes before and after one label is rewritten. `MCDiscovery` evaluates an
assumption that its four abstract label sets mean what `LabelFilter` makes of concrete
ones, which ties the two models together.

**ManualConfig** has one loader for the boot and one per reload request. `StartLoad` is
`load_manual_config()` up to its first suspension, one action per way a fetch may end
follows, then `FinishLoad`. A reload first drops every manual service, in the same step,
since nothing is awaited in between. `DockerService` is what discovery does to other
ids. **ManualEntry** is the conversion of one entry to labels, and its edits: an empty
list makes no label, and lists go through comma-separated text (`Pieces`).

Definitions marked `faulty` are plausible bugs, one or two lines away from the
definition that follows them. They are used by no specification: substituting one for
its neighbour must make a property fail, which shows that the property can (section 6).

## 3. Runs

Passing runs:

| run | distinct states | what it shows |
|---|---|---|
| `Registry` | 17 k | three services, of which two are replicas with one name and the third takes another with its labels, two overlapping patterns, three documented paths, two methods, five documents, two label sets: structure, one owner, no shadowing by newcomers, nobody else disturbs an unambiguous request, refinement of `OwnershipTable`; entries keep the document of their routes, an unambiguous request is answered by the service that documents it, under the security the document states for its route, path fields survive where paths do not collide, and `/status` hides a service only behind one that takes its name |
| `Requests` | 410 k | three clients, two of which come with headers of the gateway's names, one service that registers, changes its labels and leaves, two key sets, three key files, clock: types, no key set is used beyond its bound, a service is reached only under the policy of the entry, keys follow the file, the service learns the caller that was checked, after what the request itself says, decorators and permissions agree |
| `Discovery` | 1.8 M | a container and a Swarm service that collide, four deployments, two fetches at once for each, all failures: types, opt-in, routes match labels |
| `Live` | 59 k | two containers that collide, two attempts, fair scheduling: every step is a registry operation or leaves the registry alone, fetches end, the watcher recovers, delivered starts and stops take effect |
| `Rediscover` | 505 k | a container and a Swarm service that collide at one address, labels that come to clash, failing scans, inspections and streams, and rediscovery on request: it repairs what was missed, lifts stale blocks, and ends with the entries that the labels of now ask for |
| `Labels` | 27 k | all ways to set up to three labels, and all forms of an entry of `services.json`: documented exposure, documented demands on a request, complements, own labels win, an entry exposes and asks what it declares, with or without a namespace |
| `Manual` | 63 k | five file contents, boot and two reloads, an unreachable service, a competing Docker service: loads end, one that overlaps no other leaves exactly the services of its file, no key gets two owners, and no unambiguous request changes its service |

Runs in which the code departs from what the repository says (`findings`):

| run | statement | what happens |
|---|---|---|
| `RegistryOverlap` | README 436, "existing service unaffected" | conflicts compare patterns literally, requests match them as globs: an older service re-registers and takes requests of a newer one |
| `LostStart` | README 33, "each new service" | a start between the scan and the subscription is never seen |
| `LateFetch` | `docker_watcher.py:198`, "deregistered" | a fetch under way registers a container after its die event was handled |
| `Exhausted` | README 437, "absent from registry" | when a later fetch fails for good the old entry stays |
| `DanglingRefs` | README 377, "Component schemas are namespaced per service" | references are rewritten to names with the service's prefix, the schemas keep their own: no rewritten reference leads anywhere |

`ExistingServiceUnaffected` fails only because of such overlaps: restricted to the
requests that one pattern alone matches it is `UnambiguousUnaffected`, which holds.

The models also contain behaviours that follow from the same causes and have no run of
their own:

* A die event is ignored when the container is gone before it is inspected
  (`docker run --rm`): its networks are then the empty set (`docker_watcher.py:178-189`).
  In `Discovery` this is `IgnoreEvent` after `DockerDestroy`. Hence the premise of
  `StopTakesEffect` that the stopped container still exists.
* An older fetch may register after a newer one, and replace the error entry that the
  newer one has put: then a service whose labels set both `filter.*` and `exclude.*` is
  served by what its former labels select (`RoutesMatchLabels`). README 435, "all routes
  blocked", is therefore checked in its eventual form: `RediscoverUpdates` says that
  rediscovery ends this state, when Docker rests.
* A Swarm service updated to labels that do not opt in keeps its old entry
  (`docker_watcher.py:226`), and no rediscovery removes it; nor does anything remove the
  entry of a container admitted while detection of the networks failed, when a later
  session, with the networks known, ignores its die event. Nothing promises otherwise.
* A listing of Swarm services that fails is taken for an empty one (`docker_watcher.py:110`),
  and the scan for a complete one; only a later scan finds what this one missed.
* Between the drop of a reload and the registration of an entry a Docker service may take
  the entry's paths, and keeps them (`manual_loader.py:34`).
* At a path that several services expose (under different methods), the merged document has
  the path fields of the first (`docs.py:91`). Hence the premise of `PathFieldsKept`.
* Of two overlapping reloads the older may register last and leave entries of a file that
  has been replaced. Hence `alone` in `LoadMatchesFile`: the next reload that overlaps
  none repairs whatever they left.
* A key that only the label of a service requires is not in the merged document when the
  setting `GATEWAY_API_KEY_REQUIRED` is off (`docs.py:104`). Hence the premise
  `ApiKeyRequired` of that part of `ServedAsDocumented`.
* Headers of a request that have the names of the gateway's own are passed on
  (`forwarder.py:36`), in lower case, so that what the gateway writes becomes a further
  line, and WSGI joins both with a comma. `ServiceKnowsCaller` says what holds of every
  request: the checked id and tenant stand last, the checked roles are among the roles.
  That a service sees the checked caller *and nobody else*, and that an attribute is
  "present when JWT was validated" (`clients/README.md:41-42`, and `decorators.py:48-51` in
  other words), holds of requests that bring no such header, and is claimed of no others.
  A deployment that relies on it needs something in front that removes them.
* The REST framework class returns before it reads the tenant when there is no user, while
  the middleware, which it is said to mirror, always reads it (`drf.py:70`). Hence the
  premise of a gateway user in `ViewsAndPermissionsAgree`.
* An error page that is JSON is cached as a key set for a whole `TTL` (`middleware.py:20`):
  in `RequestPath` a `KeySet` is any document, also one with which nothing verifies, while
  an empty object counts as no key set, so that the next request asks again.
* The older of two overlapping refreshes may be stored last. `BoundedStaleness` says how
  much that can cost: no more than a `TTL`, since the time stored with a set is the one
  before its GET.

### Bounds

* Services, containers: two or three. Ownership is a relation of two services; the third
  lets a key become free and be taken by another while the first is blocked.
* `Slot`, the fetches under way for one id: two in `Discovery`, an older and a newer one,
  one in the liveness runs, where an update still meets a fetch with labels of before. The code has no limit; in the model a creator waits for a
  free slot, which only removes behaviours with more tasks. The proofs hold for any set
  of slots.
* `MaxStream`, unread events: one in the passing runs, beside the event that is being
  handled; two where one container makes the trace. A Docker step waits while the stream
  is full.
* `Attempts`: one in `Discovery`, two in `Live`, where retry and give-up differ.
* `Scanner`: the rediscovery endpoint takes part in `Rediscover`. The proofs of safety hold
  with or without it.
* `ClashOrNot`, the deployments of `Rediscover`: labels that select a route and labels that
  clash. The Swarm service may change from either to the other, and both objects have one
  host, so that what is fetched collides.
* `MaxLabels`: three labels set at once, enough for a filter, an exclude and one of the
  labels `name`, `prefix` or `enable`, or for the same label under both scopes and
  another one. The labels that are set are all about the routes or all about calls and
  address (`name` goes with both), because no answer depends on labels of both kinds;
  so it is with the fields of an entry. An entry's prefix is missing, `true` or a path;
  an empty one is tried as a label. Labels and entry are not set at the same time: a
  service has either.
* `Requests`: a client with a token and a key, one whose token has no id, and one with neither;
  the first comes with ids and a path of its own, the second with roles and a tenant's name. A
  client with a key only is the first one at a service that needs no token. The two with
  tokens suffice for one refresh to overtake another, and
  `MaxClients` lets any two of the three call, no more in one behaviour. `TTL =
  MaxFetch = 1` and `MaxTime = 2` let a set expire once
  while a GET that started before is on its way. `MaxFetch`, the
  longest time a GET for the key set may take, is an assumption about the provider: httpx
  limits each read and write to five seconds, not the whole. One service with one route
  is enough, as what is resolved is a matter of `Registry`; it needs a key and has no
  prefix, or needs a token under a prefix, by its labels (`Offers`).
* `Registry`: a document without paths, single routes, a literal path before its glob, two
  paths that become one glob and of which one alone needs a token, another method whose key
  is in upper case. Both settings are on.
* The file of the manual services: missing, broken, two services that collide, a rejected
  service before another, one name twice. `Unreachable` is the service whose fetch may
  fail; `DockerLabels` has one label set, since no property depends on the labels of
  Docker services.

### Fairness

`FairSpecDiscovery` assumes weak fairness of each fetch task, of the watcher loop and of
the event thread: asyncio runs ready tasks in turn, a GET has a five-second time-out, the
back-off is finite, and executor threads are scheduled. It also assumes that calls to
the Docker daemon return: the client is made with `timeout=None`, so a daemon that never
answers blocks the loop for ever, and no property is claimed for that. Docker, the
administrator and failures are under no fairness; where progress depends on them the
property says so as a premise (`WatcherRecovers`: scan and stream stop failing;
the three of `Rediscover`: Docker stops changing, and requests to rediscover keep coming, of
which infinitely many are complete, that is, list all that is eligible with the labels it
has; between them, scans may fail or miss the Swarm services).
`FairSpecManual` assumes the same of loaders. `CHECK_DEADLOCK FALSE` appears only in
the runs of module `Discovery`, where all may come to rest: the containers are removed, no
event is left and the watcher blocks on its stream.

## 4. Proofs

Eight modules, checked to the last step. Every safety invariant and every action property
of a passing run is stated by a theorem. They hold for all services, labels, documents,
clients, tasks, files and attempts that satisfy the named assumptions of the modules:
types of the constants; `None` is no service, no label set and no value of a label or
field; at least one attempt and one slot. Three say more. `ShownAssumption` (`MergedDocs`):
the glob of an operation is determined by the path the document shows, since
`_path_to_glob` is a function of it, and the operations of one path item share its fields.
`OffersAssumption` (`RequestPath`) types the offers. `PrefixFirst` (`ClientIdentity`): every
pattern that is offered begins with the prefix its labels give (`openapi_fetcher.py:13-15`
and `35-60`).

* `SequenceLemmas`: removing and appending, least numbers, and `Among`. `Among` is a
  recursive function, and no induction theorem can be instantiated here; that it exists
  (`AmongIsDefined`) and what it returns (`AmongSelects`: the elements in the set, each
  position once, in order) are proved by the least length at which they would fail.

* `RouteRegistryProofs`: `RegistryStructure` (`RegistryOK` is inductive as it stands: the
  work is in what `Append` and `RemoveFirst` do to an injective sequence and its range),
  `SingleOwnership` (inductive together with `RegistryOK`), and
  `RegistryImplementsOwnershipTable`. The refinement needs `SingleOwner` in both states
  of a step, because the mapping chooses the owner of a key: only when there is one can
  the step be a `ClaimAndRelease` of one service. `RegistryNoShadowing`: a newcomer is listed last,
  so the first answering position, a minimum, is the same before and after.
  `RegistryIsolation`: when one pattern alone matches, every answering service exposes
  that key, so that `SingleOwner` names the answer, whatever the order. The step behind
  this is a lemma (`OwnerKeepsAnswering`) that the composed modules cite.
* `DiscoveryProofs`: `DiscoveryStructure`; `DiscoveryImplementsRegistry`, from which
  `DiscoverySingleOwner`, `DiscoveryLeavesOthersAlone` (no shadowing, isolation, the table
  of owners) and the registry's structure follow for the composed system without another
  induction; `DiscoveryRoutesMatchLabels`, inductive with the structure, since a task
  carries the labels that its routes are selected by; `DiscoveryOptIn`. Opt-in is not inductive, since entries come from labels
  read earlier: `OptInEverywhere` adds that what a scan lists, what an inspection
  admitted and what each task carries opted in, and that the network filter is on
  wherever it is used when detection works.
* `ManualConfigProofs`: `ManualStructure` and `LoadsFollowTheFile`, by `LoadInv`. That a
  load ends with the services of its file is not inductive: while loads are under way,
  each declared service is registered, *or may have failed, or is still in some
  loader's list* (`NothingForgotten`), and every entry and every list is of the file that
  was read last (`EntriesDeclared`, `TodoDeclared`); all this only as long as no other
  load overlaps (`alone`), which a load that starts by itself restores, since it drops
  everything first. `ManualConfig` does not implement the registry step by step, since
  `DropManual` removes several entries at once: `ManualRegistryStructure`,
  `ManualSingleOwner`, `ManualIsolation` and `ManualNoShadowing` prove the registry's properties for it, by the registry's lemmas for single operations and by
  `AmongSelects` for the drop, which keeps the order of those that stay.
* `RequestPathProofs`: `PathKeepsRegistry` (requests only read the registry),
  `PathStructure`, `KeysAreFresh`, `PolicyIsObeyed`, `KeysAreLoadedWhole`, by `PathInv`.
  Freshness needs, of an answer on its way back, that it was published after its request
  came; of the cache, that its set was published at or after its time stamp; and of a
  request in `closing`, that whatever another one has stored meanwhile was asked for at
  most `MaxFetch` before it, which follows from `Tick`: no GET outlives `MaxFetch`.
* `ClientIdentityProofs`: `ViewsAgree`, and `CallersAreKnown`: `ServiceKnowsCaller` holds
  in every behaviour, whatever headers a request comes with (`FurtherLine`: what is
  written after some lines is the last one, and is there). `RoutesUnderPrefix`, that entries have routes under their prefix, is
  an invariant by `PrefixFirst`; `ExposedUnderPrefix` of `LabelFilterProofs` proves of the
  routes that `_extract_routes` makes what `PrefixFirst` assumes, for prefixes without a
  parameter. The invariant `Known` carries through the awaits that the claims are those of the request's own
  token, the tenant that of its own key, and that the path begins with the prefix of the
  entry it was routed by; `PrefixAndRest` is the fact about sequences that the path
  is put together again from prefix and rest.
* `MergedDocsProofs`: `DocsImplementRegistry` and `DocsKeepOwners` (the registry's theorems
  hold with documents), `DocsBelongToEntries` (each healthy entry keeps the document its
  routes come from), `DocsMatchRoutes` (`DocsOK`: the document lists of the registered
  routes exactly those that are listed), `DocumentTellsTheTruth`
  (`ServedAsDocumented`), `PathFieldsAreTheOwners` (`PathFieldsKept`) and
  `HiddenByNameOnly`. The truth of the document follows from `DocsBelongToEntries` and
  `SingleOwner`: when one pattern alone matches a request, all items shown for it have
  that pattern and method, hence one owner, and this owner is who answers; among the items
  of one owner the one with the answering route, documented path included, has that route's
  demands, because items at one shown path are of one documented path. The items at a
  path are finitely many, so a first one exists (`PathFields`), by least numbers taken
  twice. `HiddenByNameOnly`: the entry that a name shows is the last position of that
  name, and a position of that name comes to be only by `Append` or by an entry that takes
  the name.
* `LabelFilterProofs`: `FilterAsDocumented` (for every label set and operation, the code's
  filter keeps what the README says), `ExposureFollowsDocs`, `ExposedInOrder` (the routes
  are the operations the filter keeps, each once, in the order of the document),
  `ExposedUnderPrefix`, `Complements`, `AccessFollowsOrder`, `OwnLabelsDecide` (for each
  label, what a shared one can change once an own one is set), `EntriesDeclareExposure`
  and `EntriesNeedNoNamespace`. That an entry exposes what it declares needs `Clean`: no
  item with a comma or blank, and a name, because an empty one becomes `unknown`
  (`openapi_fetcher.py:18-23`).

Only model-checked: liveness, which this prover does not treat (`FetchTerminates`,
`WatcherRecovers`, `StartTakesEffect`, `StopTakesEffect`, `RediscoverRepairs`,
`RediscoverUnblocks`, `RediscoverUpdates`, `LoadsTerminate`).

## 5. Not modelled

* Strings: trimming, case folding of `"true"`, slashes of prefixes, the syntax of globs.
  Labels are values, list labels sets of items, paths sequences of segments, and
  `Matches`/`GlobMatches` say what fnmatch accepts.
* Networks of a container that change while it runs (`docker network connect`).
* Base URLs and ports beyond the question which object answers a fetch; a service that
  answers with a document of another is covered by `HostOf`.
* What a container is called when it cannot be inspected: the fetcher then falls back to
  the host `unknown` unless a label names it, where the model keeps the address. An event
  of such a container is acted on only when the gateway does not know its networks.
* The Python-level race of `manual_loader.py:31`, which iterates over the dictionary
  without the lock.
* Tokens and signatures: `Verifies` is a constant relation of tokens and key sets; the
  algorithms, audience and expiry of tokens are in it.
* What the gateway passes on without looking: query, bodies, hop-by-hop headers, and the
  headers of answers, content-encoding included. Of the headers of a request those are
  modelled that have the names of the gateway's own.
* The admin secret, the wording of answers, the HTML of the documentation pages, the
  header of the merged document, the ports and document paths of services.
* Of the Django client: settings for header names, messages, attributes of the user that
  no decision reads.
* Settings other than those that are CONSTANTS, tests and deployment files.

## 6. Faulty variants

`mutants` in `PROJECT.json` pairs every property of a passing run with a variant that
breaks it: a registry that lists a re-registered id again (`PutAppends`), searches the
newest first (`PutFirst`), skips the conflict check of a known id
(`ConflictsOfNewcomer`), evicts the owner (`RegisterEvicts`) or ignores the method
(`HitsOfAnyMethod`); a fetcher with one attempt too many, one that never gives up, one that
filters by the labels of now or registers without the check; a watcher that skips the
opt-in, never gets to the events, or handles only known or only healthy ids; a
rediscovery that refreshes only known or only unknown ids; a fetch that leaves the old entry
where it should block it; labels whose opt-in falls
back or whose lists do not; filters joined by *and*; entries with empty labels or
namespaced ones; loads that stop at a rejected service, end early, or keep what left the
file; a reload that drops the wrong services (`DropInverted`); a registry whose
overwritten keys move to the end, or that keeps the document of a blocked service; a document that takes the security of a service's first route or the path
fields of the first service; a key cache stamped when the answer arrives; a route looked
up again after the body is read; an error of the provider that sends no answer; a key
table filled while the file is read; an override that matches by path or method; a roles
header read up to its first comma; a permission that asks for all roles.

## 7. Plan

What is left, in this order:

1. `Gateway`: `Discovery` and `ManualConfig` over one registry, with a manual service and a
   container that collide. Each takes the other as an arbitrary client of the registry now
   (`DockerService`, and the registry's theorems, which hold for any ids).
2. Two fetches at a time for one id under the fairness of `Rediscover`, as in `Discovery`.
