---------------------------- MODULE DiscoveryProofs ----------------------------
(***************************************************************************)
(* Proofs about discovery, for every set of containers and services, every *)
(* deployment, and any number of concurrent fetches, scans and failures.   *)
(***************************************************************************)
EXTENDS Discovery, RouteRegistryProofs

(* The types of the tasks and of the free slots.                           *)
LEMMA NewTaskOK ==
    ASSUME NEW labels \in Labels
    PROVE  TaskOK(NewTask(labels))
BY AttemptsAssumption DEF TaskOK, NewTask, Task

(* An idle slot holds a well-typed task.                                   *)
LEMMA NoTaskOK == TaskOK(NoTask)
BY AttemptsAssumption DEF TaskOK, NoTask, Task

(* The slot chosen for a new task is one of the slots.                     *)
LEMMA FreeSlotOK ==
    ASSUME NEW o \in Object, HasFreeSlot(o)
    PROVE  FreeSlot(o) \in Slot
BY DEF HasFreeSlot, FreeSlot

(* Writing a well-typed task to a slot keeps all tasks well-typed.         *)
LEMMA SetTaskOK ==
    ASSUME FetchOK, NEW o \in Object, NEW s \in Slot, NEW task, TaskOK(task),
           SetTask(o, s, task)
    PROVE  FetchOK'
<1>1. fetch' \in [Object -> [Slot -> Task]]
  BY DEF FetchOK, SetTask, TaskOK
<1>2. ASSUME NEW p \in Object, NEW t \in Slot PROVE TaskOK(fetch'[p][t])
  BY DEF FetchOK, SetTask
<1> QED BY <1>1, <1>2 DEF FetchOK, TaskOK

(* Steps that leave the tasks alone keep them well-typed.                  *)
LEMMA FetchUnchangedOK == FetchOK /\ fetch' = fetch => FetchOK'
BY DEF FetchOK, TaskOK

(* The tasks that a scan launches are well-typed.                          *)
LEMMA LaunchOK ==
    ASSUME FetchOK, ScanOK, NEW sc \in Scanner, Launch(sc)
    PROVE  FetchOK'
<1>1. \A o \in Object : found[sc][o] # None => FreeSlot(o) \in Slot
  BY FreeSlotOK DEF Launch
<1>2. \A o \in Object : found[sc][o] # None => TaskOK(NewTask(found[sc][o]))
  BY NewTaskOK DEF ScanOK
<1>3. ASSUME NEW o \in Object, NEW s \in Slot
      PROVE  /\ fetch'[o] \in [Slot -> Task]
             /\ TaskOK(fetch'[o][s])
  <2>1. CASE found[sc][o] = None
    BY <2>1 DEF Launch, FetchOK
  <2>2. CASE found[sc][o] # None
    <3>1. fetch'[o] = [fetch[o] EXCEPT ![FreeSlot(o)] = NewTask(found[sc][o])]
      BY <2>2 DEF Launch
    <3>2. NewTask(found[sc][o]) \in Task
      BY <1>2, <2>2 DEF TaskOK
    <3>3. fetch'[o] \in [Slot -> Task]
      BY <1>1, <2>2, <3>1, <3>2 DEF FetchOK
    <3>4. TaskOK(fetch'[o][s])
      BY <1>1, <1>2, <2>2, <3>1 DEF FetchOK
    <3> QED BY <3>3, <3>4
  <2> QED BY <2>1, <2>2
<1>4. fetch' \in [Object -> [Slot -> Task]]
  BY <1>3, BoundsAssumption DEF Launch
<1> QED BY <1>3, <1>4 DEF FetchOK, TaskOK

---------------------------------------------------------------------------
(* One lemma per kind of step.                                             *)
LEMMA DockerStepOK ==
    ASSUME DiscoveryOK, DockerStep
    PROVE  DiscoveryOK'
<1>1. DockerOK'
  BY DEF DiscoveryOK, DockerOK, DockerStep, DockerStart, DockerStop, DockerDestroy,
         ServiceRemove, DockerUpdate, DockerState
<1>2. ASSUME NEW o \in Object, NEW act \in {"up", "down"}, Emit(o, act), handling' = handling,
             phase' = phase
      PROVE  EventsOK'
  <2>1. CASE phase["watcher"] = "watch"
    <3>1. [id |-> o, act |-> act] \in Event
      BY DEF Event
    <3>2. stream' \in Seq(Event) /\ Len(stream') <= MaxStream
      BY <1>2, <2>1, <3>1, AppendProperties, LenProperties, BoundsAssumption
         DEF Emit, DiscoveryOK, EventsOK
    <3> QED BY <1>2, <2>1, <3>2 DEF DiscoveryOK, EventsOK
  <2>2. CASE phase["watcher"] # "watch"
    BY <1>2, <2>2 DEF Emit, DiscoveryOK, EventsOK
  <2> QED BY <2>1, <2>2
<1>3. EventsOK'
  <2>1. PICK o \in Object : \/ DockerStart(o)
                            \/ DockerStop(o)
                            \/ DockerDestroy(o)
                            \/ ServiceRemove(o)
                            \/ DockerUpdate(o)
    BY DEF DockerStep
  <2>2. handling' = handling /\ phase' = phase
    BY DEF DockerStep, scanVars
  <2>3. CASE DockerDestroy(o)
    BY <2>2, <2>3 DEF DockerDestroy, DiscoveryOK, EventsOK
  <2>4. CASE ~DockerDestroy(o)
    <3>1. Emit(o, "up") \/ Emit(o, "down")
      BY <2>1, <2>4 DEF DockerStart, DockerStop, ServiceRemove, DockerUpdate
    <3> QED BY <1>2, <2>2, <3>1
  <2> QED BY <2>3, <2>4
<1>4. ScanOK' /\ FetchOK'
  BY DEF DiscoveryOK, DockerStep, scanVars, ScanOK, FetchOK, TaskOK
<1> QED BY <1>1, <1>3, <1>4 DEF DiscoveryOK

(* A step of a fetch task keeps the types and what each phase rules out.   *)
LEMMA FetchStepOK ==
    ASSUME DiscoveryOK, NEW o \in Object, NEW s \in Slot, FetchStep(o, s)
    PROVE  DiscoveryOK'
<1>1. DockerOK' /\ ScanOK' /\ EventsOK'
  BY DEF DiscoveryOK, FetchStep, dockerVars, scanVars, eventVars, DockerOK, ScanOK, EventsOK
<1>2. fetch[o][s] \in Task /\ TaskOK(fetch[o][s])
  BY DEF DiscoveryOK, FetchOK
<1>3. CASE FetchAnswer(o, s)
  <2>1. PICK p \in Answerers(o) :
          SetTask(o, s, [fetch[o][s] EXCEPT !.phase = "answered", !.spec = deploy[p].spec])
    BY <1>3 DEF FetchAnswer
  <2>2. deploy[p].spec \in OpenApi
    BY DeploymentAssumption DEF DiscoveryOK, DockerOK, Answerers
  <2>3. TaskOK([fetch[o][s] EXCEPT !.phase = "answered", !.spec = deploy[p].spec])
    BY <1>2, <1>3, <2>2 DEF FetchAnswer, Clashes, TaskOK, Task
  <2> QED BY <1>1, <2>1, <2>3, SetTaskOK DEF DiscoveryOK
<1>4. CASE FetchRetry(o, s)
  <2>1. /\ fetch[o][s].attempt + 1 \in 0 .. Attempts - 1
        /\ fetch[o][s].labels \in Labels
    BY <1>2, <1>4, AttemptsAssumption DEF FetchRetry, FetchFails, TaskOK, Task
  <2>2. TaskOK([fetch[o][s] EXCEPT !.phase = "get", !.spec = None, !.attempt = @ + 1])
    BY <1>2, <2>1 DEF TaskOK, Task
  <2> QED BY <1>1, <1>4, <2>2, SetTaskOK DEF FetchRetry, DiscoveryOK
<1>5. CASE SetTask(o, s, NoTask)
  BY <1>1, <1>5, NoTaskOK, SetTaskOK DEF DiscoveryOK
<1> QED BY <1>3, <1>4, <1>5 DEF FetchStep, FetchReject, FetchRegister, FetchGiveUp

(* So does the restart of a scanner,                                       *)
LEMMA RestartOK ==
    ASSUME ScanOK, NEW sc \in Scanner, Restart(sc)
    PROVE  ScanOK'
<1>1. /\ phase' = [phase EXCEPT ![sc] = "scan"]
      /\ found' = [found EXCEPT ![sc] = NothingFound]
      /\ netFilter' = [netFilter EXCEPT ![sc] = FALSE]
  BY DEF Restart
<1>2. NothingFound \in [Object -> Labels \cup {None}]
  BY DEF NothingFound
<1> QED BY <1>1, <1>2 DEF ScanOK, Phase

(* and a listing maps objects to labels or to None.                        *)
LEMMA ListingOK ==
    ASSUME DockerOK, NEW objects, NEW filterOn,
           NEW before \in [Object -> Labels \cup {None}]
    PROVE  Listing(objects, filterOn, before) \in [Object -> Labels \cup {None}]
BY DeploymentAssumption DEF DockerOK, Listing

(* The first half of a scan keeps the types of scans,                      *)
LEMMA ScanContainersOK ==
    ASSUME DiscoveryOK, NEW sc \in Scanner, ScanContainers(sc)
    PROVE  ScanOK'
<1>1. PICK filterOn \in NetFilterModes :
        /\ netFilter' = [netFilter EXCEPT ![sc] = filterOn]
        /\ found' = [found EXCEPT ![sc] = Listing(Container, filterOn, NothingFound)]
  BY DEF ScanContainers
<1>2. filterOn \in BOOLEAN
  BY ModesAssumption
<1>3. Listing(Container, filterOn, NothingFound) \in [Object -> Labels \cup {None}]
  BY ListingOK DEF NothingFound, DiscoveryOK
<1>4. phase' = [phase EXCEPT ![sc] = "services"]
  BY DEF ScanContainers
<1> QED BY <1>1, <1>2, <1>3, <1>4 DEF DiscoveryOK, ScanOK, Phase

(* and the second half does.                                               *)
LEMMA ScanServicesOK ==
    ASSUME DiscoveryOK, NEW sc \in Scanner, ScanServices(sc)
    PROVE  ScanOK'
<1>1. PICK listed : found' = [found EXCEPT ![sc] = Listing(listed, netFilter[sc], found[sc])]
  BY DEF ScanServices
<1>2. Listing(listed, netFilter[sc], found[sc]) \in [Object -> Labels \cup {None}]
  BY ListingOK DEF DiscoveryOK, ScanOK
<1> QED BY <1>1, <1>2 DEF ScanServices, DiscoveryOK, ScanOK, Phase

(* Steps of the watcher loop,                                              *)
LEMMA WatcherLoopStepOK ==
    ASSUME DiscoveryOK, WatcherLoopStep
    PROVE  DiscoveryOK'
<1>1. "watcher" \in Scanner
  BY ScannerAssumption
<1>2. DockerOK'
  BY DEF WatcherLoopStep, dockerVars, DiscoveryOK, DockerOK
<1>3. CASE ScanContainers("watcher")
  <2>1. EventsOK'
    BY <1>1, <1>3 DEF ScanContainers, eventVars, DiscoveryOK, EventsOK, ScanOK
  <2> QED BY <1>1, <1>2, <1>3, <2>1, ScanContainersOK
          DEF ScanContainers, DiscoveryOK, FetchOK, TaskOK
<1>4. CASE ScanServices("watcher")
  <2>1. EventsOK'
    BY <1>1, <1>4 DEF ScanServices, eventVars, DiscoveryOK, EventsOK, ScanOK
  <2> QED BY <1>1, <1>2, <1>4, <2>1, ScanServicesOK
          DEF ScanServices, DiscoveryOK, FetchOK, TaskOK
<1>5. CASE LaunchScanned
  <2>1. NothingFound \in [Object -> Labels \cup {None}]
    BY DEF NothingFound
  <2>2. ScanOK'
    BY <1>1, <1>5, <2>1 DEF LaunchScanned, DiscoveryOK, ScanOK, Phase
  <2>3. EventsOK'
    BY <1>1, <1>5 DEF LaunchScanned, eventVars, DiscoveryOK, EventsOK, ScanOK
  <2> QED BY <1>1, <1>2, <1>5, <2>2, <2>3, LaunchOK DEF LaunchScanned, DiscoveryOK
<1>6. CASE Subscribe
  <2>1. ScanOK'
    BY <1>1, <1>6, ModesAssumption DEF Subscribe, DiscoveryOK, ScanOK, Phase
  <2>2. EventsOK'
    BY <1>1, <1>6 DEF Subscribe, eventVars, DiscoveryOK, EventsOK, ScanOK
  <2> QED BY <1>2, <1>6, <2>1, <2>2 DEF Subscribe, DiscoveryOK, FetchOK, TaskOK
<1> QED BY <1>3, <1>4, <1>5, <1>6 DEF WatcherLoopStep

(* of the rediscovery endpoint,                                            *)
LEMMA AdminStepOK ==
    ASSUME DiscoveryOK, AdminStep
    PROVE  DiscoveryOK'
<1>1. "admin" \in Scanner /\ "watcher" \in Scanner
  BY ScannerAssumption DEF AdminStep
<1>2. DockerOK'
  BY DEF AdminStep, dockerVars, DiscoveryOK, DockerOK
<1>3. phase' \in [Scanner -> Phase] /\ phase'["watcher"] = phase["watcher"] => EventsOK'
  BY DEF AdminStep, ScanContainers, ScanServices, LaunchRediscovered, eventVars, DiscoveryOK,
         EventsOK
<1>4. CASE ScanContainers("admin")
  <2>1. ScanOK' /\ phase'["watcher"] = phase["watcher"]
    BY <1>1, <1>4, ScanContainersOK DEF ScanContainers, DiscoveryOK, ScanOK
  <2> QED BY <1>2, <1>3, <1>4, <2>1 DEF ScanContainers, DiscoveryOK, ScanOK, FetchOK, TaskOK
<1>5. CASE ScanServices("admin")
  <2>1. ScanOK' /\ phase'["watcher"] = phase["watcher"]
    BY <1>1, <1>5, ScanServicesOK DEF ScanServices, DiscoveryOK, ScanOK
  <2> QED BY <1>2, <1>3, <1>5, <2>1 DEF ScanServices, DiscoveryOK, ScanOK, FetchOK, TaskOK
<1>6. CASE LaunchRediscovered
  <2>1. ScanOK' /\ phase'["watcher"] = phase["watcher"]
    BY <1>1, <1>6, RestartOK DEF LaunchRediscovered, Restart, DiscoveryOK, ScanOK
  <2>2. FetchOK'
    BY <1>1, <1>6, LaunchOK DEF LaunchRediscovered, DiscoveryOK
  <2> QED BY <1>2, <1>3, <2>1, <2>2 DEF DiscoveryOK, ScanOK
<1> QED BY <1>4, <1>5, <1>6 DEF AdminStep

(* failures of scans and of the stream,                                    *)
LEMMA DisturbanceOK ==
    ASSUME DiscoveryOK, Disturbance
    PROVE  DiscoveryOK'
<1>1. "watcher" \in Scanner
  BY ScannerAssumption
<1>2. DockerOK' /\ FetchOK'
  BY DEF Disturbance, ScanFails, StreamBreaks, dockerVars, DiscoveryOK, DockerOK, FetchOK, TaskOK
<1>3. ASSUME NEW sc \in Scanner, ScanFails(sc)
      PROVE  ScanOK' /\ EventsOK'
  <2>1. ScanOK'
    BY <1>3, RestartOK DEF ScanFails, DiscoveryOK
  <2>2. phase["watcher"] # "watch" \/ phase'["watcher"] = "watch"
    BY <1>1, <1>3 DEF ScanFails, Restart, DiscoveryOK, ScanOK
  <2> QED BY <1>3, <2>1, <2>2 DEF ScanFails, eventVars, DiscoveryOK, EventsOK
<1>4. CASE StreamBreaks
  <2>1. ScanOK'
    BY <1>1, <1>4, RestartOK DEF StreamBreaks, DiscoveryOK
  <2>2. EventsOK'
    BY <1>4, EmptySeq, BoundsAssumption DEF StreamBreaks, DiscoveryOK, EventsOK
  <2> QED BY <1>2, <2>1, <2>2 DEF DiscoveryOK
<1> QED BY <1>2, <1>3, <1>4 DEF Disturbance, DiscoveryOK

(* and the handling of events keep the types and the phases.               *)
LEMMA EventStepOK ==
    ASSUME DiscoveryOK, EventStep
    PROVE  DiscoveryOK'
<1>1. DockerOK' /\ ScanOK'
  BY DEF EventStep, TakeEvent, IgnoreEvent, HandleServiceRemoved, HandleUp, HandleDown,
         dockerVars, scanVars, DiscoveryOK, DockerOK, ScanOK
<1>2. phase' = phase
  BY DEF EventStep, TakeEvent, IgnoreEvent, HandleServiceRemoved, HandleUp, HandleDown, scanVars
<1>3. ASSUME NEW o \in Object, NEW act \in {"up", "down"}, NextEvent(o, act)
      PROVE  stream' \in Seq(Event) /\ Len(stream') <= MaxStream /\ phase["watcher"] = "watch"
  <2>1. stream \in Seq(Event) /\ stream # <<>> /\ stream' = Tail(stream)
    BY <1>3 DEF NextEvent, DiscoveryOK, EventsOK
  <2>2. stream' \in Seq(Event) /\ Len(stream') = Len(stream) - 1
    BY <2>1, HeadTailProperties
  <2>3. Len(stream) \in Nat
    BY <2>1, LenProperties
  <2> QED BY <2>1, <2>2, <2>3, BoundsAssumption DEF DiscoveryOK, EventsOK
<1>4. ASSUME NEW o \in Object, NEW act \in {"up", "down"}, TakeEvent(o, act)
      PROVE  EventsOK' /\ FetchOK'
  <2>1. deploy[o].labels \in Labels
    BY DeploymentAssumption DEF DiscoveryOK, DockerOK
  <2>2. handling' \in Action
    BY <1>4, <2>1 DEF TakeEvent, Action
  <2> QED BY <1>2, <1>3, <1>4, <2>2 DEF TakeEvent, EventsOK, DiscoveryOK, FetchOK, TaskOK
<1>5. ASSUME NEW o \in Object, NEW act \in {"up", "down"}, IgnoreEvent(o, act)
      PROVE  EventsOK' /\ FetchOK'
  BY <1>2, <1>3, <1>5 DEF IgnoreEvent, EventsOK, DiscoveryOK, FetchOK, TaskOK
<1>6. CASE HandleUp
  <2>1. handling \in Action
    BY <1>6 DEF HandleUp, DiscoveryOK, EventsOK, NoAction
  <2>2. handling.id \in Object /\ handling.labels \in Labels
    BY <2>1 DEF Action
  <2>3. FetchOK'
    BY <1>6, <2>2, FreeSlotOK, NewTaskOK, SetTaskOK DEF HandleUp, DiscoveryOK
  <2>4. EventsOK'
    BY <1>2, <1>6 DEF HandleUp, DiscoveryOK, EventsOK
  <2> QED BY <1>1, <2>3, <2>4 DEF DiscoveryOK
<1>7. CASE HandleDown
  <2>1. FetchOK'
    BY <1>7, FetchUnchangedOK DEF HandleDown, DiscoveryOK
  <2>2. EventsOK'
    BY <1>2, <1>7 DEF HandleDown, DiscoveryOK, EventsOK
  <2> QED BY <1>1, <2>1, <2>2 DEF DiscoveryOK
<1>8. ASSUME NEW o \in Object, HandleServiceRemoved(o)
      PROVE  EventsOK' /\ FetchOK'
  <2>1. NextEvent(o, "down")
    BY <1>8 DEF HandleServiceRemoved
  <2> QED BY <1>2, <1>3, <1>8, <2>1 DEF HandleServiceRemoved, EventsOK, DiscoveryOK, FetchOK, TaskOK
<1> QED BY <1>1, <1>4, <1>5, <1>6, <1>7, <1>8 DEF EventStep, DiscoveryOK

(* They hold when the gateway starts.                                      *)
LEMMA InitDiscoveryOK == InitDiscovery => DiscoveryOK
<1> SUFFICES ASSUME InitDiscovery PROVE DiscoveryOK
  OBVIOUS
<1>1. DockerOK
  BY DEF InitDiscovery, DockerOK, DockerState
<1>2. ScanOK
  BY DEF InitDiscovery, ScanOK, Phase, NothingFound
<1>3. EventsOK
  BY EmptySeq, BoundsAssumption DEF InitDiscovery, EventsOK
<1>4. FetchOK
  BY NoTaskOK DEF InitDiscovery, FetchOK, TaskOK
<1> QED BY <1>1, <1>2, <1>3, <1>4 DEF DiscoveryOK

(* Discovery is type correct: a scanner lists objects only while it scans, *)
(* events are pending only during a session, a task that has an answer has *)
(* labels of its creator without conflicting filters.                      *)
THEOREM DiscoveryStructure == SpecDiscovery => []DiscoveryOK
<1>1. DiscoveryOK /\ [NextDiscovery]_vars => DiscoveryOK'
  <2> SUFFICES ASSUME DiscoveryOK, [NextDiscovery]_vars PROVE DiscoveryOK'
    OBVIOUS
  <2>1. CASE UNCHANGED vars
    BY <2>1, FetchUnchangedOK
       DEF vars, dockerVars, scanVars, eventVars, DiscoveryOK, DockerOK, ScanOK, EventsOK
  <2> QED BY <2>1, DockerStepOK, FetchStepOK, WatcherLoopStepOK, AdminStepOK, DisturbanceOK,
             EventStepOK DEF NextDiscovery
<1> QED BY <1>1, InitDiscoveryOK, PTL DEF SpecDiscovery

---------------------------------------------------------------------------
(* Discovery and the registry.  Each step of discovery is one call of the  *)
(* registry or none.                                                       *)
LEMMA DiscoveryStepIsRegistryStep ==
    ASSUME DiscoveryOK, [NextDiscovery]_vars
    PROVE  [NextRegistry]_registryVars
<1>1. ASSUME NEW o \in Object, NEW s \in Slot, FetchStep(o, s)
      PROVE  [NextRegistry]_registryVars
  <2>1. o \in ServiceId /\ TaskOK(fetch[o][s])
    BY ObjectAssumption DEF DiscoveryOK, FetchOK
  <2>2. CASE FetchReject(o, s)
    BY <2>1, <2>2 DEF FetchReject, TaskOK, NextRegistry
  <2>3. CASE FetchRegister(o, s)
    <3> DEFINE task == fetch[o][s]
    <3>1. task.labels \in Labels /\ Extract[task.labels][task.spec] \in RouteList
      BY <2>1, <2>3, ExtractAssumption DEF FetchRegister, TaskOK
    <3> QED BY <2>1, <2>3, <3>1 DEF FetchRegister, NextRegistry
  <2>4. CASE FetchAnswer(o, s) \/ FetchRetry(o, s) \/ FetchGiveUp(o, s)
    BY <2>4 DEF FetchAnswer, FetchRetry, FetchGiveUp
  <2> QED BY <1>1, <2>2, <2>3, <2>4 DEF FetchStep
<1>2. ASSUME EventStep
      PROVE  [NextRegistry]_registryVars
  <2>1. ASSUME NEW o \in Object, Deregister(o) PROVE NextRegistry
    BY <2>1, ObjectAssumption DEF NextRegistry
  <2>2. handling.act = "down" => handling.id \in Object
    BY DEF DiscoveryOK, EventsOK, Action, NoAction
  <2> QED BY <1>2, <2>1, <2>2
          DEF EventStep, TakeEvent, IgnoreEvent, HandleServiceRemoved, HandleUp, HandleDown
<1>3. ASSUME DockerStep \/ WatcherLoopStep \/ AdminStep \/ Disturbance
      PROVE  UNCHANGED registryVars
  BY <1>3 DEF DockerStep, WatcherLoopStep, AdminStep, Disturbance
<1>4. CASE UNCHANGED vars
  BY <1>4 DEF vars
<1> QED BY <1>1, <1>2, <1>3, <1>4 DEF NextDiscovery

(* The registry of a running gateway behaves as the registry alone does,   *)
(* so all that is proved of the registry holds of the gateway.             *)
THEOREM DiscoveryImplementsRegistry == SpecDiscovery => ImplementsRegistry
<1>1. InitDiscovery => InitRegistry
  BY DEF InitDiscovery
<1>2. DiscoveryOK /\ [NextDiscovery]_vars => [NextRegistry]_registryVars
  BY DiscoveryStepIsRegistryStep
<1> QED BY <1>1, <1>2, DiscoveryStructure, PTL
        DEF SpecDiscovery, SpecRegistry, ImplementsRegistry

(* Whatever the interleaving of scans, events, fetches, retries, failures  *)
(* and rediscoveries, no two healthy services expose the same key.         *)
THEOREM DiscoverySingleOwner == SpecDiscovery => []SingleOwner
BY DiscoveryImplementsRegistry, SingleOwnership, PTL DEF ImplementsRegistry

(* Nor does a service that is discovered take a request from another, or   *)
(* a service that fails or goes affect the requests of those that stay;    *)
(* routes are claimed and released all at once (route_registry.py, 26-82). *)
THEOREM DiscoveryLeavesOthersAlone ==
    SpecDiscovery => /\ NewcomerNeverShadows
                     /\ UnambiguousUnaffected
                     /\ ImplementsOwnershipTable
BY DiscoveryImplementsRegistry, RegistryNoShadowing, RegistryIsolation,
   RegistryImplementsOwnershipTable, PTL DEF ImplementsRegistry

(* Discovery keeps the registry well-formed: each id of the order has an   *)
(* entry, once, and errors expose nothing (route_registry.py, 26-70).      *)
THEOREM DiscoveryRegistryStructure == SpecDiscovery => []RegistryOK
BY DiscoveryImplementsRegistry, RegistryStructure, PTL DEF ImplementsRegistry

---------------------------------------------------------------------------
(* The entries that fetches write: no step of discovery separates the      *)
(* labels of an entry from its routes.                                     *)
LEMMA DiscoveryStepKeepsEntries ==
    ASSUME RegistryOK, DiscoveryOK, RoutesMatchLabels, [NextDiscovery]_vars
    PROVE  RoutesMatchLabels'
<1> DEFINE Fine(entry) == entry.status = "ok" =>
                             \E spec \in OpenApi : entry.routes = Extract[entry.labels][spec]
<1>1. \A o \in Object : Fine(store[o])
  BY DEF RoutesMatchLabels
<1>2. SUFFICES \A o \in Object : Fine(store'[o])
  BY DEF RoutesMatchLabels
<1>3. ASSUME NEW sid \in ServiceId, NEW entry, Fine(entry),
             store' = [store EXCEPT ![sid] = entry]
      PROVE  \A o \in Object : Fine(store'[o])
  BY <1>1, <1>3, ObjectAssumption DEF RegistryOK, TypeOKRegistry
<1>4. CASE store' = store
  BY <1>1, <1>4
<1>5. ASSUME NEW sid \in ServiceId, Deregister(sid)
      PROVE  \A o \in Object : Fine(store'[o])
  <2>1. Fine(NoEntry)
    BY DEF NoEntry
  <2> HIDE DEF Fine
  <2> QED BY <1>3, <1>4, <1>5, <2>1 DEF Deregister, Pop, registryVars
<1>6. ASSUME NEW o \in Object, NEW s \in Slot, FetchStep(o, s)
      PROVE  \A p \in Object : Fine(store'[p])
  <2>1. o \in ServiceId /\ TaskOK(fetch[o][s])
    BY ObjectAssumption DEF DiscoveryOK, FetchOK
  <2>2. ASSUME NEW reason, reason # "ok", NEW labels, Put(o, ErrorEntry(reason, labels))
        PROVE  \A p \in Object : Fine(store'[p])
    <3>1. Fine(ErrorEntry(reason, labels))
      BY <2>2 DEF ErrorEntry
    <3> HIDE DEF Fine
    <3> QED BY <1>3, <2>1, <2>2, <3>1 DEF Put
  <2>3. CASE FetchReject(o, s)
    BY <2>2, <2>3 DEF FetchReject, RegisterError
  <2>4. CASE FetchRegister(o, s)
    <3> DEFINE task  == fetch[o][s]
               routes == Extract[task.labels][task.spec]
    <3>1. CASE RegisterHealthy(o, routes, task.labels)
      <4>1. Fine(HealthyEntry(routes, task.labels))
        BY <2>1, <2>4 DEF FetchRegister, TaskOK, HealthyEntry
      <4> HIDE DEF Fine
      <4> QED BY <1>3, <2>1, <3>1, <4>1 DEF RegisterHealthy, Put
    <3>2. CASE RegisterBlocked(o, routes, task.labels)
      BY <2>2, <3>2 DEF RegisterBlocked
    <3> QED BY <2>4, <3>1, <3>2 DEF FetchRegister, Register
  <2>5. CASE FetchAnswer(o, s) \/ FetchRetry(o, s) \/ FetchGiveUp(o, s)
    BY <1>4, <2>5 DEF FetchAnswer, FetchRetry, FetchGiveUp, registryVars
  <2> QED BY <1>6, <2>3, <2>4, <2>5 DEF FetchStep
<1>7. CASE EventStep
  <2>1. handling.act = "down" => handling.id \in Object
    BY DEF DiscoveryOK, EventsOK, Action, NoAction
  <2> HIDE DEF Fine
  <2> QED BY <1>4, <1>5, <1>7, <2>1, ObjectAssumption
          DEF EventStep, TakeEvent, IgnoreEvent, HandleServiceRemoved, HandleUp, HandleDown,
              registryVars
<1>8. ASSUME DockerStep \/ WatcherLoopStep \/ AdminStep \/ Disturbance \/ UNCHANGED vars
      PROVE  store' = store
  BY <1>8 DEF DockerStep, WatcherLoopStep, AdminStep, Disturbance, vars, registryVars
<1> HIDE DEF Fine
<1> QED BY <1>4, <1>6, <1>7, <1>8 DEF NextDiscovery

(* The routes of an entry are the ones that its own labels select from one *)
(* document, for all interleavings of scans, events, updates and fetches.  *)
THEOREM DiscoveryRoutesMatchLabels == SpecDiscovery => []RoutesMatchLabels
<1>1. InitDiscovery => RoutesMatchLabels
  BY ObjectAssumption DEF InitDiscovery, InitRegistry, NoEntry, RoutesMatchLabels
<1>2. RegistryOK /\ DiscoveryOK /\ RoutesMatchLabels /\ [NextDiscovery]_vars => RoutesMatchLabels'
  BY DiscoveryStepKeepsEntries
<1> QED BY <1>1, <1>2, DiscoveryStructure, DiscoveryRegistryStructure, PTL DEF SpecDiscovery

---------------------------------------------------------------------------
(* Opting in, along the path of the labels: from what a scan lists or an   *)
(* inspection reads to the task, and from the task to the entry.           *)
LEMMA ContainersAreFixed ==
    ASSUME DiscoveryOK, [NextDiscovery]_vars, NEW o \in Container
    PROVE  deploy'[o] = deploy[o]
<1>1. CASE DockerStep
  <2>1. PICK p \in Object : \/ DockerStart(p)
                            \/ DockerStop(p)
                            \/ DockerDestroy(p)
                            \/ ServiceRemove(p)
                            \/ DockerUpdate(p)
    BY <1>1 DEF DockerStep
  <2>2. CASE DockerUpdate(p) /\ p \notin Container
    BY <2>2 DEF DockerUpdate, DiscoveryOK, DockerOK, Object
  <2> QED BY <2>1, <2>2 DEF DockerStart, DockerStop, DockerDestroy, ServiceRemove, DockerUpdate
<1>2. CASE ~DockerStep
  BY <1>2 DEF NextDiscovery, FetchStep, WatcherLoopStep, EventStep, AdminStep, Disturbance,
              vars, dockerVars
<1> QED BY <1>1, <1>2

(* What a listing finds is admissible, if the filter is on when it must be.*)
LEMMA ListingOptsIn ==
    ASSUME NEW filterOn, NetFilterModes = {TRUE} => filterOn,
           NEW objects, NEW before,
           \A o \in Object : before[o] # None => Admissible(o, before[o]),
           NEW o \in Object, Listing(objects, filterOn, before)[o] # None
    PROVE  Admissible(o, Listing(objects, filterOn, before)[o])
BY DEF Listing, Eligible, Admissible

(* When networks are always known, a scan and a session filter by them.    *)
LEMMA FilterStaysOn ==
    ASSUME DiscoveryOK, FilterIsOn, [NextDiscovery]_vars
    PROVE  FilterIsOn'
<1> SUFFICES ASSUME NetFilterModes = {TRUE}, NEW sc \in Scanner, phase'[sc] \in {"services", "watch"}
             PROVE  netFilter'[sc]
  BY DEF FilterIsOn
<1>1. CASE phase' = phase /\ netFilter' = netFilter
  BY <1>1 DEF FilterIsOn
<1>2. ASSUME NEW ss \in Scanner, ScanContainers(ss)
      PROVE  netFilter'[sc]
  BY <1>2 DEF ScanContainers, FilterIsOn, DiscoveryOK, ScanOK
<1>3. ASSUME NEW ss \in Scanner, ScanServices(ss)
      PROVE  netFilter'[sc]
  BY <1>3 DEF ScanServices, FilterIsOn, DiscoveryOK, ScanOK
<1>4. ASSUME NEW ss \in Scanner, Restart(ss)
      PROVE  netFilter'[sc]
  BY <1>4 DEF Restart, FilterIsOn, DiscoveryOK, ScanOK
<1>5. CASE LaunchScanned
  BY <1>5 DEF LaunchScanned, FilterIsOn, DiscoveryOK, ScanOK
<1>6. CASE Subscribe
  BY <1>6 DEF Subscribe, FilterIsOn, DiscoveryOK, ScanOK
<1>7. CASE DockerStep \/ (\E o \in Object, s \in Slot : FetchStep(o, s)) \/ UNCHANGED vars
  BY <1>1, <1>7 DEF DockerStep, FetchStep, vars, scanVars
<1>8. CASE EventStep
  BY <1>1, <1>8 DEF EventStep, TakeEvent, IgnoreEvent, HandleServiceRemoved, HandleUp, HandleDown,
                    scanVars
<1>9. CASE AdminStep
  BY <1>2, <1>3, <1>4, <1>9 DEF AdminStep, LaunchRediscovered
<1>10. CASE WatcherLoopStep
  BY <1>2, <1>3, <1>5, <1>6, <1>10, ScannerAssumption DEF WatcherLoopStep
<1>11. CASE Disturbance
  BY <1>4, <1>11, ScannerAssumption DEF Disturbance, ScanFails, StreamBreaks
<1> QED BY <1>7, <1>8, <1>9, <1>10, <1>11 DEF NextDiscovery

(* What a scan has listed stays admissible,                                *)
LEMMA FoundOptsInKept ==
    ASSUME DiscoveryOK, OptInEverywhere, [NextDiscovery]_vars
    PROVE  FoundOptsIn'
<1> SUFFICES ASSUME NEW sc \in Scanner, NEW o \in Object, found'[sc][o] # None
             PROVE  Admissible(o, found[sc][o])'
  BY DEF FoundOptsIn
<1>1. SUFFICES Admissible(o, found'[sc][o])
  BY ContainersAreFixed DEF Admissible
<1>2. CASE found' = found
  BY <1>2 DEF OptInEverywhere, FoundOptsIn
<1>3. \A p \in Object : NothingFound[p] = None
  BY DEF NothingFound
<1>4. ASSUME NEW ss \in Scanner, ScanContainers(ss)
      PROVE  Admissible(o, found'[sc][o])
  <2>1. PICK filterOn \in NetFilterModes :
          found' = [found EXCEPT ![ss] = Listing(Container, filterOn, NothingFound)]
    BY <1>4 DEF ScanContainers
  <2>2. NetFilterModes = {TRUE} => filterOn
    BY <2>1
  <2>3. CASE sc = ss
    BY <1>3, <2>1, <2>2, <2>3, ListingOptsIn DEF DiscoveryOK, ScanOK
  <2>4. CASE sc # ss
    BY <2>1, <2>4 DEF OptInEverywhere, FoundOptsIn, DiscoveryOK, ScanOK
  <2> QED BY <2>3, <2>4
<1>5. ASSUME NEW ss \in Scanner, ScanServices(ss)
      PROVE  Admissible(o, found'[sc][o])
  <2>1. PICK listed : found' = [found EXCEPT ![ss] = Listing(listed, netFilter[ss], found[ss])]
    BY <1>5 DEF ScanServices
  <2>2. NetFilterModes = {TRUE} => netFilter[ss]
    BY <1>5 DEF ScanServices, OptInEverywhere, FilterIsOn
  <2>3. \A p \in Object : found[ss][p] # None => Admissible(p, found[ss][p])
    BY DEF OptInEverywhere, FoundOptsIn
  <2>4. CASE sc = ss
    BY <2>1, <2>2, <2>3, <2>4, ListingOptsIn DEF DiscoveryOK, ScanOK
  <2>5. CASE sc # ss
    BY <2>1, <2>3, <2>5 DEF OptInEverywhere, FoundOptsIn, DiscoveryOK, ScanOK
  <2> QED BY <2>4, <2>5
<1>6. ASSUME NEW ss \in Scanner, found' = [found EXCEPT ![ss] = NothingFound]
      PROVE  Admissible(o, found'[sc][o])
  BY <1>3, <1>6 DEF OptInEverywhere, FoundOptsIn, DiscoveryOK, ScanOK
<1>7. CASE DockerStep \/ (\E p \in Object, s \in Slot : FetchStep(p, s)) \/ UNCHANGED vars
  BY <1>2, <1>7 DEF DockerStep, FetchStep, vars, scanVars
<1>8. CASE EventStep
  BY <1>2, <1>8 DEF EventStep, TakeEvent, IgnoreEvent, HandleServiceRemoved, HandleUp, HandleDown,
                    scanVars
<1>9. CASE AdminStep
  BY <1>4, <1>5, <1>6, <1>9 DEF AdminStep, LaunchRediscovered, Restart
<1>10. CASE WatcherLoopStep
  BY <1>2, <1>4, <1>5, <1>6, <1>10, ScannerAssumption
     DEF WatcherLoopStep, LaunchScanned, Subscribe
<1>11. CASE Disturbance
  BY <1>6, <1>11, ScannerAssumption DEF Disturbance, ScanFails, StreamBreaks, Restart
<1> QED BY <1>7, <1>8, <1>9, <1>10, <1>11 DEF NextDiscovery

(* what an inspection has admitted,                                        *)
LEMMA HandlingOptInKept ==
    ASSUME DiscoveryOK, OptInEverywhere, [NextDiscovery]_vars
    PROVE  HandlingOptIn'
<1> SUFFICES ASSUME handling'.act = "up"
             PROVE  Admissible(handling.id, handling.labels)'
  BY DEF HandlingOptIn
<1>1. CASE handling' = handling
  <2>1. handling \in Action
    BY <1>1 DEF DiscoveryOK, EventsOK, NoAction
  <2>2. handling.id \in Object /\ Admissible(handling.id, handling.labels)
    BY <1>1, <2>1 DEF Action, OptInEverywhere, HandlingOptIn
  <2> QED BY <1>1, <2>2, ContainersAreFixed DEF Admissible
<1>2. ASSUME NEW o \in Object, NEW act \in {"up", "down"}, TakeEvent(o, act)
      PROVE  Admissible(handling.id, handling.labels)'
  <2>1. handling' = [id |-> o, act |-> act, labels |-> deploy[o].labels]
    BY <1>2 DEF TakeEvent
  <2>2. NetFilterModes = {TRUE} => netFilter["watcher"]
    <3>1. phase["watcher"] = "watch"
      BY <1>2 DEF TakeEvent, NextEvent, DiscoveryOK, EventsOK
    <3> QED BY <3>1, ScannerAssumption DEF OptInEverywhere, FilterIsOn
  <2>3. Admissible(o, deploy[o].labels)
    BY <1>2, <2>2 DEF TakeEvent, Admitted, Admissible
  <2> QED BY <2>1, <2>3, ContainersAreFixed DEF Admissible
<1>3. CASE handling' # handling
  <2>1. handling' # NoAction
    BY DEF NoAction
  <2>2. EventStep
    BY <1>3 DEF NextDiscovery, DockerStep, FetchStep, WatcherLoopStep, ScanContainers,
                ScanServices, LaunchScanned, Subscribe, AdminStep, LaunchRediscovered,
                Disturbance, ScanFails, StreamBreaks, eventVars, vars
  <2> QED BY <1>2, <1>3, <2>1, <2>2
          DEF EventStep, IgnoreEvent, HandleServiceRemoved, HandleUp, HandleDown
<1> QED BY <1>1, <1>3

(* and what a task carries.                                                *)
LEMMA TasksOptInKept ==
    ASSUME DiscoveryOK, OptInEverywhere, [NextDiscovery]_vars
    PROVE  TasksOptIn'
<1> DEFINE Fine(o, task) == task.phase # "idle" => Admissible(o, task.labels)
<1>1. \A o \in Object, s \in Slot : Fine(o, fetch[o][s])
  BY DEF OptInEverywhere, TasksOptIn, Idle
<1>2. SUFFICES \A o \in Object, s \in Slot : Fine(o, fetch'[o][s])
  BY ContainersAreFixed DEF TasksOptIn, Idle, Admissible
<1>3. CASE fetch' = fetch
  BY <1>1, <1>3
<1>4. ASSUME NEW p \in Object, NEW t \in Slot, NEW task, Fine(p, task), SetTask(p, t, task)
      PROVE  \A o \in Object, s \in Slot : Fine(o, fetch'[o][s])
  <2> HIDE DEF Fine
  <2> QED BY <1>1, <1>4 DEF SetTask, DiscoveryOK, FetchOK
<1>5. ASSUME NEW p \in Object, NEW t \in Slot, FetchStep(p, t)
      PROVE  \A o \in Object, s \in Slot : Fine(o, fetch'[o][s])
  <2>1. Fine(p, fetch[p][t]) /\ fetch[p][t] \in Task
    BY <1>1 DEF DiscoveryOK, FetchOK
  <2>2. Fine(p, NoTask)
    BY DEF NoTask
  <2>3. CASE FetchAnswer(p, t)
    <3>1. PICK q \in Answerers(p) :
            SetTask(p, t, [fetch[p][t] EXCEPT !.phase = "answered", !.spec = deploy[q].spec])
      BY <2>3 DEF FetchAnswer
    <3>2. Fine(p, [fetch[p][t] EXCEPT !.phase = "answered", !.spec = deploy[q].spec])
      BY <2>1, <2>3 DEF FetchAnswer, Task
    <3> QED BY <1>4, <3>1, <3>2
  <2>4. CASE FetchRetry(p, t)
    <3>1. Fine(p, [fetch[p][t] EXCEPT !.phase = "get", !.spec = None, !.attempt = @ + 1])
      BY <2>1, <2>4 DEF FetchRetry, FetchFails, Task
    <3> QED BY <1>4, <2>4, <3>1 DEF FetchRetry
  <2> QED BY <1>4, <1>5, <2>2, <2>3, <2>4
          DEF FetchStep, FetchReject, FetchRegister, FetchGiveUp
<1>6. ASSUME NEW sc \in Scanner, Launch(sc)
      PROVE  \A o \in Object, s \in Slot : Fine(o, fetch'[o][s])
  <2> SUFFICES ASSUME NEW o \in Object, NEW s \in Slot PROVE Fine(o, fetch'[o][s])
    OBVIOUS
  <2>1. CASE found[sc][o] = None
    <3>1. fetch'[o] = fetch[o]
      BY <1>6, <2>1 DEF Launch
    <3> QED BY <1>1, <3>1
  <2>2. CASE found[sc][o] # None
    <3>1. fetch'[o] = [fetch[o] EXCEPT ![FreeSlot(o)] = NewTask(found[sc][o])]
      BY <1>6, <2>2 DEF Launch
    <3>2. Fine(o, NewTask(found[sc][o]))
      BY <2>2 DEF NewTask, OptInEverywhere, FoundOptsIn
    <3> HIDE DEF Fine
    <3> QED BY <1>1, <3>1, <3>2 DEF DiscoveryOK, FetchOK
  <2> QED BY <2>1, <2>2
<1>7. CASE HandleUp
  <2>1. handling \in Action
    BY <1>7 DEF HandleUp, DiscoveryOK, EventsOK, NoAction
  <2>2. handling.id \in Object /\ FreeSlot(handling.id) \in Slot
    BY <1>7, <2>1, FreeSlotOK DEF Action, HandleUp
  <2>3. Fine(handling.id, NewTask(handling.labels))
    BY <1>7 DEF HandleUp, NewTask, OptInEverywhere, HandlingOptIn
  <2> QED BY <1>4, <1>7, <2>2, <2>3 DEF HandleUp
<1>8. CASE LaunchScanned \/ LaunchRediscovered
  BY <1>6, <1>8, ScannerAssumption DEF LaunchScanned, LaunchRediscovered
<1>9. CASE EventStep
  BY <1>3, <1>7, <1>9 DEF EventStep, TakeEvent, IgnoreEvent, HandleServiceRemoved, HandleDown
<1>10. CASE DockerStep \/ Disturbance \/ UNCHANGED vars
  BY <1>3, <1>10 DEF DockerStep, Disturbance, ScanFails, StreamBreaks, vars
<1>11. CASE WatcherLoopStep \/ AdminStep
  BY <1>3, <1>8, <1>11 DEF WatcherLoopStep, AdminStep, ScanContainers, ScanServices, Subscribe
<1> QED BY <1>5, <1>9, <1>10, <1>11 DEF NextDiscovery

(* Hence what is registered: no step breaks OptInEverywhere.               *)
LEMMA OptInKept ==
    ASSUME RegistryOK, DiscoveryOK, OptInEverywhere, [NextDiscovery]_vars
    PROVE  OptIn'
<1> DEFINE Fine(o, entry) == entry.status # "absent" => Admissible(o, entry.labels)
<1>1. \A o \in Object : Fine(o, store[o])
  BY DEF OptInEverywhere, OptIn, Registered
<1>2. SUFFICES \A o \in Object : Fine(o, store'[o])
  BY ContainersAreFixed DEF OptIn, Registered, Admissible
<1>3. ASSUME NEW p \in Object, NEW entry, Fine(p, entry), Put(p, entry)
      PROVE  \A o \in Object : Fine(o, store'[o])
  <2> HIDE DEF Fine
  <2> QED BY <1>1, <1>3, ObjectAssumption DEF Put, RegistryOK, TypeOKRegistry
<1>4. ASSUME NEW p \in Object, Deregister(p)
      PROVE  \A o \in Object : Fine(o, store'[o])
  <2>1. Fine(p, NoEntry)
    BY DEF NoEntry
  <2> HIDE DEF Fine
  <2> QED BY <1>1, <1>4, <2>1, ObjectAssumption
          DEF Deregister, Pop, registryVars, RegistryOK, TypeOKRegistry
<1>5. CASE store' = store
  BY <1>1, <1>5
<1>6. ASSUME NEW p \in Object, NEW t \in Slot, FetchStep(p, t)
      PROVE  \A o \in Object : Fine(o, store'[o])
  <2> DEFINE labels == fetch[p][t].labels
  <2>1. CASE FetchReject(p, t)
    <3>1. Fine(p, ErrorEntry("filter_conflict", labels))
      BY <2>1 DEF FetchReject, ErrorEntry, OptInEverywhere, TasksOptIn, Idle
    <3> QED BY <1>3, <2>1, <3>1 DEF FetchReject, RegisterError
  <2>2. CASE FetchRegister(p, t)
    <3> DEFINE routes == Extract[labels][fetch[p][t].spec]
    <3>1. /\ Fine(p, ErrorEntry("path_conflict", labels))
          /\ Fine(p, HealthyEntry(routes, labels))
      BY <2>2 DEF FetchRegister, ErrorEntry, HealthyEntry, OptInEverywhere, TasksOptIn, Idle
    <3> QED BY <1>3, <2>2, <3>1 DEF FetchRegister, Register, RegisterHealthy, RegisterBlocked
  <2>3. CASE FetchAnswer(p, t) \/ FetchRetry(p, t) \/ FetchGiveUp(p, t)
    BY <1>5, <2>3 DEF FetchAnswer, FetchRetry, FetchGiveUp, registryVars
  <2> QED BY <1>6, <2>1, <2>2, <2>3 DEF FetchStep
<1>7. CASE EventStep
  <2>1. handling.act = "down" => handling.id \in Object
    BY DEF DiscoveryOK, EventsOK, Action, NoAction
  <2> QED BY <1>4, <1>5, <1>7, <2>1
          DEF EventStep, TakeEvent, IgnoreEvent, HandleServiceRemoved, HandleUp, HandleDown,
              registryVars
<1>8. CASE DockerStep \/ WatcherLoopStep \/ AdminStep \/ Disturbance \/ UNCHANGED vars
  BY <1>5, <1>8 DEF DockerStep, WatcherLoopStep, AdminStep, Disturbance, vars, registryVars
<1> QED BY <1>6, <1>7, <1>8 DEF NextDiscovery

(* It holds when the gateway starts.                                       *)
LEMMA InitOptIn == InitDiscovery => OptInEverywhere
BY ObjectAssumption
   DEF InitDiscovery, InitRegistry, NoEntry, OptInEverywhere, OptIn, Registered, TasksOptIn, Idle,
       NoTask, FoundOptsIn, NothingFound, HandlingOptIn, NoAction, FilterIsOn

(* Nothing is ever registered that did not opt in to this gateway or, when *)
(* the gateway knows its networks, a container that shares none of them.   *)
THEOREM DiscoveryOptIn == SpecDiscovery => []OptIn
<1>1. RegistryOK /\ DiscoveryOK /\ OptInEverywhere /\ [NextDiscovery]_vars => OptInEverywhere'
  BY OptInKept, TasksOptInKept, FoundOptsInKept, HandlingOptInKept, FilterStaysOn
     DEF OptInEverywhere
<1>2. OptInEverywhere => OptIn
  BY DEF OptInEverywhere
<1> QED BY <1>1, <1>2, InitOptIn, DiscoveryStructure, DiscoveryRegistryStructure, PTL
        DEF SpecDiscovery
================================================================================
