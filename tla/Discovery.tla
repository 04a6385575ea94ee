------------------------------- MODULE Discovery -------------------------------
(***************************************************************************)
(* Discovery of Docker services: the watcher and its scans                 *)
(* (gateway/discovery/docker_watcher.py) and the fetch tasks they start    *)
(* (gateway/discovery/openapi_fetcher.py), writing to the registry of      *)
(* module RouteRegistry.                                                   *)
(*                                                                         *)
(* Three kinds of actors run concurrently with the Docker daemon:          *)
(*   - the watcher loop: scan, start one fetch per object found, subscribe *)
(*     to the event stream, handle its events one by one in a thread;      *)
(*   - the admin endpoint /_gateway/rediscover: the same scan on request;  *)
(*   - one asyncio task per fetch, which suspends at the GET and at the    *)
(*     back-off sleep, and any number of which may run for the same id.    *)
(* A step of the model is what one of them does between two points at      *)
(* which another one can run.                                              *)
(***************************************************************************)
EXTENDS RouteRegistry

CONSTANTS Container,        \* container ids
          Swarm,            \* ids of Swarm services
          Host,             \* addresses that services are reached at
          HostOf,           \* HostOf[o]: the address that o's specification is fetched from
          OpenApi,          \* OpenAPI documents
          Deployment,       \* what an object is deployed with
          Enabled,          \* the label sets that opt in to this gateway
          FilterClash,      \* the label sets with both filter.* and exclude.*
          Extract,          \* Extract[labels][spec]: the routes kept of a document
          Attempts,         \* GATEWAY_DISCOVERY_RETRY_ATTEMPTS
          NetFilterModes,   \* {TRUE}: networks known; {FALSE}: unknown; BOOLEAN: detection may fail
          Failures,         \* what may fail: "inspect", "get", "scan", "stream"
          Slot,             \* bound: fetch tasks that may run at once for an id
          MaxStream,        \* bound: unread events in the stream
          Scanner           \* {"watcher"} or {"watcher", "admin"}

Object == Container \cup Swarm

ASSUME ObjectAssumption     == Object \subseteq ServiceId /\ Container \cap Swarm = {}
ASSUME HostAssumption       == HostOf \in [Object -> Host]
ASSUME DeploymentAssumption ==
          Deployment \subseteq [labels : Labels, spec : OpenApi, onNet : BOOLEAN]
ASSUME LabelsAssumption     == Enabled \subseteq Labels /\ FilterClash \subseteq Labels
ASSUME ExtractAssumption    == Extract \in [Labels -> [OpenApi -> RouteList]]
ASSUME NoDocumentAssumption == None \notin OpenApi
ASSUME AttemptsAssumption   == Attempts \in Nat \ {0}
ASSUME ModesAssumption      == NetFilterModes \subseteq BOOLEAN
ASSUME BoundsAssumption     == MaxStream \in Nat /\ Slot # {}
ASSUME ScannerAssumption    == Scanner \subseteq {"watcher", "admin"} /\ "watcher" \in Scanner

VARIABLES docker,       \* [Object -> DockerState], what the daemon knows
          deploy,       \* [Object -> Deployment], the labels, document and networks of each
          phase,        \* [Scanner -> Phase], where the watcher loop and the endpoint are
          found,        \* [Scanner -> [Object -> Labels or None]], what the scan in progress lists
          netFilter,    \* [Scanner -> BOOLEAN], whether gateway_nets is not empty
          stream,       \* unread events of the watcher's subscription
          handling,     \* the event between its inspection and its effect
          fetch         \* [Object -> [Slot -> Task]], the fetch tasks

dockerVars == <<docker, deploy>>
scanVars   == <<phase, found, netFilter>>
eventVars  == <<stream, handling>>
vars == <<registryVars, dockerVars, scanVars, eventVars, fetch>>

DockerState == {"absent", "running", "stopped", "removed"}
Phase       == {"scan", "services", "scanned", "subscribe", "watch"}
Event       == [id : Object, act : {"up", "down"}]
Action      == [id : Object, act : {"up", "down"}, labels : Labels]
NoAction    == [act |-> "none"]
Task        == [phase : {"idle", "get", "answered"}, labels : Labels \cup {None},
                attempt : 0 .. Attempts - 1, spec : OpenApi \cup {None}]
NoTask      == [phase |-> "idle", labels |-> None, attempt |-> 0, spec |-> None]
NewTask(labels) == [phase |-> "get", labels |-> labels, attempt |-> 0, spec |-> None]
NothingFound == [o \in Object |-> None]

InitDiscovery ==
    /\ InitRegistry
    /\ docker \in [Object -> {"absent", "running"}]
    /\ deploy \in [Object -> Deployment]
    /\ phase = [sc \in Scanner |-> "scan"]
    /\ found = [sc \in Scanner |-> NothingFound]
    /\ netFilter = [sc \in Scanner |-> FALSE]
    /\ stream = <<>>
    /\ handling = NoAction
    /\ fetch = [o \in Object |-> [s \in Slot |-> NoTask]]

---------------------------------------------------------------------------
(* The Docker daemon.  Only a subscribed watcher receives an event; the    *)
(* events of before the subscription are not replayed.  Container events   *)
(* start and update, and service events create and update, are "up"; die,  *)
(* stop and remove are "down".  destroy is not an event the watcher reads. *)
Emit(o, act) ==
    IF phase["watcher"] = "watch"
    THEN /\ Len(stream) < MaxStream
         /\ stream' = Append(stream, [id |-> o, act |-> act])
    ELSE stream' = stream

DockerStart(o) ==
    /\ docker[o] \in {"absent", "stopped"}
    /\ docker' = [docker EXCEPT ![o] = "running"]
    /\ Emit(o, "up")
    /\ UNCHANGED deploy

DockerStop(o) ==
    /\ o \in Container
    /\ docker[o] = "running"
    /\ docker' = [docker EXCEPT ![o] = "stopped"]
    /\ Emit(o, "down")
    /\ UNCHANGED deploy

DockerDestroy(o) ==
    /\ o \in Container
    /\ docker[o] = "stopped"
    /\ docker' = [docker EXCEPT ![o] = "removed"]
    /\ UNCHANGED <<stream, deploy>>

ServiceRemove(o) ==
    /\ o \in Swarm
    /\ docker[o] = "running"
    /\ docker' = [docker EXCEPT ![o] = "removed"]
    /\ Emit(o, "down")
    /\ UNCHANGED deploy

(* The labels of a container are fixed when it is created; an update event *)
(* reports new resource limits.  A Swarm service may change all it has.    *)
DockerUpdate(o) ==
    /\ docker[o] \in (IF o \in Container THEN {"running", "stopped"} ELSE {"running"})
    /\ IF o \in Container
       THEN UNCHANGED deploy
       ELSE \E d \in Deployment : deploy' = [deploy EXCEPT ![o] = d]
    /\ Emit(o, "up")
    /\ UNCHANGED docker

DockerStep ==
    /\ \E o \in Object : \/ DockerStart(o)
                         \/ DockerStop(o)
                         \/ DockerDestroy(o)
                         \/ ServiceRemove(o)
                         \/ DockerUpdate(o)
    /\ UNCHANGED <<registryVars, scanVars, handling, fetch>>

---------------------------------------------------------------------------
(* Fetch tasks.  A task is born with the labels that its creator read, and *)
(* keeps them.  The bound on tasks makes a creator wait for a free slot.   *)
Idle(o, s)     == fetch[o][s].phase = "idle"
HasFreeSlot(o) == \E s \in Slot : Idle(o, s)
FreeSlot(o)    == CHOOSE s \in Slot : Idle(o, s)
NoFetch(o)     == \A s \in Slot : Idle(o, s)

SetTask(o, s, task) == fetch' = [fetch EXCEPT ![o][s] = task]

Clashes(o, s) == fetch[o][s].labels \in FilterClash

FetchRejectSilently(o, s) ==    \* faulty: leaves the entry of before
    /\ fetch[o][s].phase = "get"
    /\ Clashes(o, s)
    /\ SetTask(o, s, NoTask)
    /\ UNCHANGED registryVars

(* Both filter.* and exclude.*: an error entry and no fetch.               *)
FetchReject(o, s) ==
    /\ fetch[o][s].phase = "get"
    /\ Clashes(o, s)
    /\ RegisterError(o, fetch[o][s].labels)
    /\ SetTask(o, s, NoTask)

Answerers(o) == {p \in Object : docker[p] = "running" /\ HostOf[p] = HostOf[o]}

(* Whatever runs at the address of o answers with its own document, which  *)
(* is on its way from then on.                                             *)
FetchAnswer(o, s) ==
    /\ fetch[o][s].phase = "get"
    /\ ~Clashes(o, s)
    /\ \E p \in Answerers(o) :
          SetTask(o, s, [fetch[o][s] EXCEPT !.phase = "answered", !.spec = deploy[p].spec])
    /\ UNCHANGED registryVars

FetchOverwrites(o, s) ==        \* faulty: registers without looking for conflicts
    LET task == fetch[o][s]
    IN  /\ task.phase = "answered"
        /\ Put(o, HealthyEntry(Extract[task.labels][task.spec], task.labels))
        /\ SetTask(o, s, NoTask)

FetchRefilters(o, s) ==         \* faulty: filters by the labels of now, not the task's
    LET task == fetch[o][s]
    IN  /\ task.phase = "answered"
        /\ Register(o, Extract[deploy[o].labels][task.spec], task.labels)
        /\ SetTask(o, s, NoTask)

(* The answer is parsed, filtered by the labels of the task and registered *)
(* without another suspension.                                             *)
FetchRegister(o, s) ==
    LET task == fetch[o][s]
    IN  /\ task.phase = "answered"
        /\ Register(o, Extract[task.labels][task.spec], task.labels)
        /\ SetTask(o, s, NoTask)

(* No connection, a time-out, an error status, a body that is not JSON:    *)
(* the attempt is lost.  After the last one the task only logs.            *)
FetchFails(o, s) ==
    /\ ~Clashes(o, s)
    /\ \/ fetch[o][s].phase = "get" /\ Answerers(o) = {}
       \/ fetch[o][s].phase # "idle" /\ "get" \in Failures

FetchRetryOnceMore(o, s) ==     \* faulty: one attempt too many
    /\ FetchFails(o, s)
    /\ fetch[o][s].attempt < Attempts
    /\ SetTask(o, s, [fetch[o][s] EXCEPT !.phase = "get", !.spec = None,
                                         !.attempt = @ + 1])
    /\ UNCHANGED registryVars

FetchRetry(o, s) ==
    /\ FetchFails(o, s)
    /\ fetch[o][s].attempt + 1 < Attempts
    /\ SetTask(o, s, [fetch[o][s] EXCEPT !.phase = "get", !.spec = None,
                                         !.attempt = @ + 1])
    /\ UNCHANGED registryVars

FetchGiveUpLate(o, s) ==        \* faulty: waits for an attempt that never comes
    /\ FetchFails(o, s)
    /\ fetch[o][s].attempt = Attempts
    /\ SetTask(o, s, NoTask)
    /\ UNCHANGED registryVars

FetchGiveUp(o, s) ==
    /\ FetchFails(o, s)
    /\ fetch[o][s].attempt + 1 = Attempts
    /\ SetTask(o, s, NoTask)
    /\ UNCHANGED registryVars

FetchStep(o, s) ==
    /\ \/ FetchReject(o, s)
       \/ FetchAnswer(o, s)
       \/ FetchRegister(o, s)
       \/ FetchRetry(o, s)
       \/ FetchGiveUp(o, s)
    /\ UNCHANGED <<dockerVars, scanVars, eventVars>>

---------------------------------------------------------------------------
(* Scans: _collect_enabled() lists the running containers, then the Swarm  *)
(* services, and keeps the ones that opt in and share a network with the   *)
(* gateway.  An empty gateway_nets switches the network filter off.        *)
Eligible(o, filterOn) == /\ deploy[o].labels \in Enabled
                         /\ filterOn => deploy[o].onNet

Listing(objects, filterOn, before) ==
    [o \in Object |-> IF o \in objects /\ docker[o] = "running" /\ Eligible(o, filterOn)
                      THEN deploy[o].labels
                      ELSE before[o]]

ScanContainers(sc) ==
    /\ phase[sc] = "scan"
    /\ \E filterOn \in NetFilterModes :
          /\ netFilter' = [netFilter EXCEPT ![sc] = filterOn]
          /\ found' = [found EXCEPT ![sc] = Listing(Container, filterOn, NothingFound)]
    /\ phase' = [phase EXCEPT ![sc] = "services"]
    /\ UNCHANGED <<eventVars, fetch>>

(* An API error skips the services, whether or not Docker is in Swarm mode.*)
ScanServices(sc) ==
    /\ phase[sc] = "services"
    /\ \E listed \in {Swarm} \cup (IF "scan" \in Failures THEN {{}} ELSE {}) :
          found' = [found EXCEPT ![sc] = Listing(listed, netFilter[sc], found[sc])]
    /\ phase' = [phase EXCEPT ![sc] = "scanned"]
    /\ UNCHANGED <<netFilter, eventVars, fetch>>

(* Back to the start: the next round of the watcher loop, or an endpoint   *)
(* that has answered its request.                                          *)
Restart(sc) ==
    /\ phase' = [phase EXCEPT ![sc] = "scan"]
    /\ found' = [found EXCEPT ![sc] = NothingFound]
    /\ netFilter' = [netFilter EXCEPT ![sc] = FALSE]

ScanFails(sc) ==
    /\ "scan" \in Failures
    /\ phase[sc] = "services"
    /\ Restart(sc)
    /\ UNCHANGED <<eventVars, fetch>>

LaunchRegistered(sc) ==         \* faulty: only refreshes what is registered
    /\ \A o \in Object : found[sc][o] # None => HasFreeSlot(o)
    /\ fetch' = [o \in Object |->
                    IF found[sc][o] = None \/ ~Registered(o) THEN fetch[o]
                    ELSE [fetch[o] EXCEPT ![FreeSlot(o)] = NewTask(found[sc][o])]]

LaunchUnregistered(sc) ==       \* faulty: skips what is registered, if only as an error
    /\ \A o \in Object : found[sc][o] # None => HasFreeSlot(o)
    /\ fetch' = [o \in Object |->
                    IF found[sc][o] = None \/ Registered(o) THEN fetch[o]
                    ELSE [fetch[o] EXCEPT ![FreeSlot(o)] = NewTask(found[sc][o])]]

(* One task per object found, all created before the loop runs another.    *)
Launch(sc) ==
    /\ \A o \in Object : found[sc][o] # None => HasFreeSlot(o)
    /\ fetch' = [o \in Object |->
                    IF found[sc][o] = None THEN fetch[o]
                    ELSE [fetch[o] EXCEPT ![FreeSlot(o)] = NewTask(found[sc][o])]]

LaunchAndRescan ==              \* faulty: never gets to the events
    /\ phase["watcher"] = "scanned"
    /\ Launch("watcher")
    /\ Restart("watcher")
    /\ UNCHANGED eventVars

LaunchScanned ==
    /\ phase["watcher"] = "scanned"
    /\ Launch("watcher")
    /\ phase' = [phase EXCEPT !["watcher"] = "subscribe"]
    /\ found' = [found EXCEPT !["watcher"] = NothingFound]
    /\ UNCHANGED <<netFilter, eventVars>>

LaunchRediscovered ==
    /\ "admin" \in Scanner
    /\ phase["admin"] = "scanned"
    /\ Launch("admin")
    /\ Restart("admin")
    /\ UNCHANGED eventVars

---------------------------------------------------------------------------
(* The event thread.  The networks of the gateway are resolved anew at the *)
(* start of each session, then the stream is opened.                       *)
Subscribe ==
    /\ phase["watcher"] = "subscribe"
    /\ \E filterOn \in NetFilterModes :
          netFilter' = [netFilter EXCEPT !["watcher"] = filterOn]
    /\ phase' = [phase EXCEPT !["watcher"] = "watch"]
    /\ UNCHANGED <<found, eventVars, fetch>>

(* The stream ends or raises, between two events: the rest of it is lost,  *)
(* and the loop scans again at once or after five seconds.                 *)
StreamBreaks ==
    /\ "stream" \in Failures
    /\ phase["watcher"] \in {"subscribe", "watch"}
    /\ handling = NoAction
    /\ Restart("watcher")
    /\ stream' = <<>>
    /\ UNCHANGED <<handling, fetch>>

(* Inspecting the object of an event succeeds only while it exists.  When  *)
(* it fails, the labels are the event's attributes, which repeat those of  *)
(* a container but not those of a service, and no network is known.        *)
Exists(o) == docker[o] \in {"running", "stopped"}

Inspections(o) == {known \in BOOLEAN : IF known THEN Exists(o)
                                       ELSE ~Exists(o) \/ "inspect" \in Failures}

AdmittedByNetwork(o, known) ==  \* faulty: the enable label is not looked at
    /\ known \/ o \in Container
    /\ netFilter["watcher"] => known /\ deploy[o].onNet

Admitted(o, known) ==
    /\ deploy[o].labels \in Enabled
    /\ known \/ o \in Container
    /\ netFilter["watcher"] => known /\ deploy[o].onNet

NextEvent(o, act) ==
    /\ handling = NoAction
    /\ stream # <<>>
    /\ Head(stream) = [id |-> o, act |-> act]
    /\ stream' = Tail(stream)

(* The event of a container, or the creation or update of a service, is    *)
(* inspected first; it is dropped unless the object is admitted.           *)
Inspected(o, act) == o \in Container \/ act = "up"

TakeEvent(o, act) ==
    /\ NextEvent(o, act)
    /\ Inspected(o, act)
    /\ \E known \in Inspections(o) : Admitted(o, known)
    /\ handling' = [id |-> o, act |-> act, labels |-> deploy[o].labels]
    /\ UNCHANGED <<registryVars, scanVars, fetch>>

IgnoreEvent(o, act) ==
    /\ NextEvent(o, act)
    /\ Inspected(o, act)
    /\ \E known \in Inspections(o) : ~Admitted(o, known)
    /\ UNCHANGED <<handling, registryVars, scanVars, fetch>>

(* The removal of a service is not inspected.                              *)
HandleServiceRemoved(o) ==
    /\ NextEvent(o, "down")
    /\ ~Inspected(o, "down")
    /\ Deregister(o)
    /\ UNCHANGED <<handling, scanVars, fetch>>

HandleUpOfRegistered ==         \* faulty: an unknown id starts no fetch
    /\ handling.act = "up"
    /\ HasFreeSlot(handling.id)
    /\ IF Registered(handling.id)
       THEN SetTask(handling.id, FreeSlot(handling.id), NewTask(handling.labels))
       ELSE UNCHANGED fetch
    /\ handling' = NoAction
    /\ UNCHANGED <<stream, registryVars, scanVars>>

HandleUp ==
    /\ handling.act = "up"
    /\ HasFreeSlot(handling.id)
    /\ SetTask(handling.id, FreeSlot(handling.id), NewTask(handling.labels))
    /\ handling' = NoAction
    /\ UNCHANGED <<stream, registryVars, scanVars>>

HandleDownOfHealthy ==          \* faulty: error entries stay
    /\ handling.act = "down"
    /\ IF store[handling.id].status = "ok" THEN Deregister(handling.id)
                                           ELSE UNCHANGED registryVars
    /\ handling' = NoAction
    /\ UNCHANGED <<stream, scanVars, fetch>>

HandleDown ==
    /\ handling.act = "down"
    /\ Deregister(handling.id)
    /\ handling' = NoAction
    /\ UNCHANGED <<stream, scanVars, fetch>>

EventStep ==
    /\ \/ \E o \in Object : \/ \E act \in {"up", "down"} : \/ TakeEvent(o, act)
                                                           \/ IgnoreEvent(o, act)
                            \/ HandleServiceRemoved(o)
       \/ HandleUp
       \/ HandleDown
    /\ UNCHANGED dockerVars

WatcherLoopStep ==
    /\ \/ ScanContainers("watcher")
       \/ ScanServices("watcher")
       \/ LaunchScanned
       \/ Subscribe
    /\ UNCHANGED <<registryVars, dockerVars>>

AdminStep ==
    /\ "admin" \in Scanner
    /\ \/ ScanContainers("admin")
       \/ ScanServices("admin")
       \/ LaunchRediscovered
    /\ UNCHANGED <<registryVars, dockerVars>>

Disturbance ==
    /\ \/ \E sc \in Scanner : ScanFails(sc)
       \/ StreamBreaks
    /\ UNCHANGED <<registryVars, dockerVars>>

NextDiscovery ==
    \/ DockerStep
    \/ \E o \in Object, s \in Slot : FetchStep(o, s)
    \/ WatcherLoopStep
    \/ EventStep
    \/ AdminStep
    \/ Disturbance

SpecDiscovery == InitDiscovery /\ [][NextDiscovery]_vars

(* A fetch ends each attempt within its time-out and sleeps for a bounded  *)
(* time; the watcher loop and its thread are never starved.  Docker, the   *)
(* administrator and failures owe nothing.                                 *)
Fairness ==
    /\ \A o \in Object, s \in Slot : WF_vars(FetchStep(o, s))
    /\ WF_vars(WatcherLoopStep)
    /\ WF_vars(EventStep)

FairSpecDiscovery == SpecDiscovery /\ Fairness

---------------------------------------------------------------------------
(* Types, and what each phase rules out: a scanner lists only while it     *)
(* scans, and events are read only during a session.                       *)
DockerOK == /\ docker \in [Object -> DockerState]
            /\ deploy \in [Object -> Deployment]

ScanOK == /\ phase \in [Scanner -> Phase]
          /\ found \in [Scanner -> [Object -> Labels \cup {None}]]
          /\ netFilter \in [Scanner -> BOOLEAN]
          /\ \A sc \in Scanner :
                phase[sc] \notin {"services", "scanned"} => found[sc] = NothingFound

EventsOK == /\ stream \in Seq(Event)
            /\ Len(stream) <= MaxStream
            /\ handling \in Action \cup {NoAction}
            /\ phase["watcher"] # "watch" => stream = <<>> /\ handling = NoAction

TaskOK(task) == /\ task \in Task
                /\ task.phase # "idle" => task.labels \in Labels
                /\ task.phase = "answered" =>
                      task.labels \notin FilterClash /\ task.spec \in OpenApi

FetchOK == /\ fetch \in [Object -> [Slot -> Task]]
           /\ \A o \in Object, s \in Slot : TaskOK(fetch[o][s])

DiscoveryOK == DockerOK /\ ScanOK /\ EventsOK /\ FetchOK

(* Every discovered entry was admitted: its labels opt in to this gateway, *)
(* and when the gateway knows its networks a container shares one of them. *)
(* Labels are read by a scan or an inspection and used after the GET       *)
(* (docker_watcher.py, lines 92-97 and 184-189).                           *)
Admissible(o, labels) ==
    /\ labels \in Enabled
    /\ o \in Container /\ NetFilterModes = {TRUE} => deploy[o].onNet

OptIn == \A o \in Object : Registered(o) => Admissible(o, store[o].labels)

(* OptIn is not inductive: what a scan lists, an inspection admits and a   *)
(* task carries must be admissible too, and so must the filter be on.      *)
TasksOptIn    == \A o \in Object, s \in Slot :
                    ~Idle(o, s) => Admissible(o, fetch[o][s].labels)
FoundOptsIn   == \A sc \in Scanner, o \in Object :
                    found[sc][o] # None => Admissible(o, found[sc][o])
HandlingOptIn == handling.act = "up" => Admissible(handling.id, handling.labels)
FilterIsOn    == NetFilterModes = {TRUE} =>
                    \A sc \in Scanner : phase[sc] \in {"services", "watch"} => netFilter[sc]

OptInEverywhere == OptIn /\ TasksOptIn /\ FoundOptsIn /\ HandlingOptIn /\ FilterIsOn

(* The labels and the routes of an entry belong together: the routes are   *)
(* the ones these labels select from one document that was fetched for     *)
(* them, whatever the service was updated to in the meantime.              *)
RoutesMatchLabels ==
    \A o \in Object : store[o].status = "ok" =>
        \E spec \in OpenApi : store[o].routes = Extract[store[o].labels][spec]

(* Discovery uses the registry only through its operations.                *)
ImplementsRegistry == SpecRegistry

---------------------------------------------------------------------------
(* Liveness.  What a run assumes of its environment it states by Failures  *)
(* and by the premises below.                                              *)
Watching    == phase["watcher"] = "watch"
Listable(o) == docker[o] = "running" /\ Eligible(o, TRUE)

LastPending(o, act) ==
    \E n \in DOMAIN stream : /\ stream[n] = [id |-> o, act |-> act]
                             /\ \A k \in DOMAIN stream : k > n => stream[k].id # o

(* A fetch never hangs: each ends in an entry, in an error entry or after  *)
(* its last attempt (openapi_fetcher.py, lines 85-103).                    *)
FetchTerminates == \A o \in Object, s \in Slot : ~Idle(o, s) ~> Idle(o, s)

(* When the connection to Docker stops failing, the watcher ends up with a *)
(* subscription and keeps it (docker_watcher.py, lines 137-149).           *)
WatcherRecovers == <>[][~Disturbance]_vars => <>[]Watching

(* The start of a service that the stream delivers has its effect, when    *)
(* the service stays up, the session lasts and nothing fails.              *)
StartTakesEffect ==
    \A o \in Object :
        [](LastPending(o, "up") /\ [](Watching /\ Listable(o)) => <>[]Registered(o))

(* The end of a service that the stream delivers has its effect, when it   *)
(* stays down, the session lasts, no fetch for it is on its way and, for a *)
(* container, the stopped container still exists when it is inspected.     *)
Down(o) == docker[o] = IF o \in Container THEN "stopped" ELSE "removed"

StopTakesEffect ==
    \A o \in Object :
        [](LastPending(o, "down") /\ [](Watching /\ Down(o) /\ NoFetch(o))
              => <>[]~Registered(o))

(* Rediscovery repairs what events missed: when Docker stops changing and  *)
(* the administrator keeps asking, every service that runs and is eligible *)
(* ends up in the registry, whatever was lost before.  Of the requests,    *)
(* infinitely many list all that is eligible: a scan may fail, or miss the *)
(* services of the Swarm, but not for ever.                                *)
Complete(sc) == \A o \in Object : Listable(o) => found[sc][o] = deploy[o].labels

RediscoveryGoesOn == /\ <>[][~DockerStep]_vars
                     /\ []<><<LaunchRediscovered /\ Complete("admin")>>_vars

RediscoverRepairs == RediscoveryGoesOn => \A o \in Object : <>[](Listable(o) => Registered(o))

(* And it brings them up to date: what a service exposes is selected by    *)
(* the labels it has now, and a service whose labels now set both filter.* *)
(* and exclude.* is blocked, as README.md, line 435, says.  Until then an  *)
(* answer to a fetch of before may register it as healthy.                 *)
RediscoverUpdates ==
    RediscoveryGoesOn =>
        \A o \in Object :
            <>[](Listable(o) =>
                    /\ store[o].labels = deploy[o].labels
                    /\ store[o].status = "filter_conflict" <=> deploy[o].labels \in FilterClash)

(* And it lifts the blocks that have lost their cause: what then stays     *)
(* blocked collides with a service that is healthy now.                    *)
StillCollides(o) == Conflicts(o, Extract[deploy[o].labels][deploy[o].spec]) # {}

RediscoverUnblocks ==
    RediscoveryGoesOn =>
        \A o \in Object :
            <>[](Listable(o) /\ store[o].status = "path_conflict" => StillCollides(o))

---------------------------------------------------------------------------
(* What the repository says of discovery and the code does not always do.  *)

(* README.md, line 33: the gateway fetches the document of each new        *)
(* service.  No failure is involved: the service just keeps running.       *)
EachNewServiceDiscovered ==
    \A o \in Object : []([]Listable(o) => <>Registered(o))

(* docker_watcher.py, line 198: a container that stopped is deregistered.  *)
(* From the moment its event has been inspected it stays stopped, and at   *)
(* some point Docker changes no more.                                      *)
StoppedMeansDeregistered ==
    <>[][~DockerStep]_vars =>
        \A o \in Container :
            [](/\ handling.act = "down" /\ handling.id = o
               /\ [](Watching /\ docker[o] = "stopped")
               => <>[]~Registered(o))

(* README.md, line 437: a service whose document could not be fetched in   *)
(* any attempt is absent from the registry.                                *)
ExhaustedMeansAbsent ==
    [][\A o \in Object, s \in Slot : FetchGiveUp(o, s) => ~Registered(o)']_vars
================================================================================
