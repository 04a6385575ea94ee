------------------------------ MODULE ManualConfig ------------------------------
(***************************************************************************)
(* Services declared in services.json (gateway/discovery/manual_loader.py),*)
(* loaded at boot (gateway/main.py) and again on POST /_gateway/reload     *)
(* (gateway/api/admin.py), while the watcher registers and deregisters     *)
(* Docker services and an operator rewrites the file.                      *)
(*                                                                         *)
(* A loader is the boot or one reload request.  It reads the file once,    *)
(* then fetches the services in the order of the file, one after the       *)
(* other; it suspends only in fetch_and_register(), where another loader   *)
(* or the watcher may run.                                                 *)
(***************************************************************************)
EXTENDS RouteRegistry, Selection

CONSTANTS Manual,       \* the ids "manual:<name>"
          OpenApi,      \* OpenAPI documents
          FilterClash,  \* label sets with both filter.* and exclude.*
          Extract,      \* Extract[labels][spec]: the routes kept of a document
          Content,      \* what services.json may hold
          NoFile,       \* it does not exist
          Broken,       \* it does not parse as a GatewayConfig
          Reload,       \* reload requests that may be under way at once
          Unreachable,  \* the services whose fetch may use up its attempts
          DockerLabels  \* bound: what Docker services are labelled with

Boot    == "boot"
Loader  == {Boot} \cup Reload
Service == [id : Manual, labels : Labels]

ASSUME ManualAssumption  == Manual \subseteq ServiceId
ASSUME ExtractAssumption == Extract \in [Labels -> [OpenApi -> RouteList]]
ASSUME ContentAssumption == Content \subseteq Seq(Service) \cup {NoFile, Broken}
ASSUME ReloadAssumption  == Boot \notin Reload
ASSUME BoundAssumption   == Unreachable \subseteq Manual /\ DockerLabels \subseteq Labels

VARIABLES file,     \* the content of services.json
          todo,     \* [Loader -> Seq(Service)], services a loader has yet to fetch
          phase,    \* [Loader -> {"starting", "idle", "loading"}]
          latest,   \* the content that the loader which started last has read
          alone     \* whether no other loader was under way then

loaderVars == <<todo, phase, latest, alone>>
manualVars == <<registryVars, file, loaderVars>>

InitManual ==
    /\ InitRegistry
    /\ file \in Content
    /\ todo = [l \in Loader |-> <<>>]
    /\ phase = [l \in Loader |-> IF l = Boot THEN "starting" ELSE "idle"]
    /\ latest = NoFile
    /\ alone = TRUE

Booted   == phase[Boot] = "idle"
AllIdle  == \A l \in Loader : phase[l] = "idle"

---------------------------------------------------------------------------
(* load_manual_config() up to its first suspension: a missing or broken    *)
(* file ends the load.                                                     *)
StartLoad(l) ==
    /\ phase' = [phase EXCEPT ![l] = "loading"]
    /\ todo' = [todo EXCEPT ![l] = IF file \in {NoFile, Broken} THEN <<>> ELSE file]
    /\ latest' = file
    /\ alone' = \A k \in Loader \ {l} : phase[k] # "loading"

(* The boot loads before the watcher is started and requests are served.   *)
BootLoad ==
    /\ phase[Boot] = "starting"
    /\ StartLoad(Boot)
    /\ UNCHANGED <<registryVars, file>>

DropDeclared ==         \* faulty: a service that left the file stays
    LET dropped == {sid \in Manual : \E n \in DOMAIN file : file[n].id = sid}
    IN  IF file \in {NoFile, Broken} THEN UNCHANGED registryVars
        ELSE /\ store' = [sid \in ServiceId |-> IF sid \in dropped THEN NoEntry ELSE store[sid]]
             /\ order' = Among(order, ServiceId \ dropped)

DropInverted ==         \* faulty: the order loses the other services instead
    /\ store' = [sid \in ServiceId |-> IF sid \in Manual THEN NoEntry ELSE store[sid]]
    /\ order' = Among(order, Manual)

(* A reload deregisters all manual services, then loads: no suspension in  *)
(* between.                                                                *)
DropManual ==
    /\ store' = [sid \in ServiceId |-> IF sid \in Manual THEN NoEntry ELSE store[sid]]
    /\ order' = Among(order, ServiceId \ Manual)

StartReload(l) ==
    /\ l \in Reload
    /\ Booted
    /\ phase[l] = "idle"
    /\ DropManual
    /\ StartLoad(l)
    /\ UNCHANGED file

(* The next service of the file: rejected, registered from the document    *)
(* that came back, or given up; in each case the loader goes on.           *)
Loading(l) == phase[l] = "loading" /\ todo[l] # <<>>

Done(l) == /\ todo' = [todo EXCEPT ![l] = Tail(@)]
           /\ UNCHANGED <<phase, latest, alone, file>>

LoadRejectedForever(l) ==       \* faulty: a rejected service is not passed over
    /\ Loading(l)
    /\ Head(todo[l]).labels \in FilterClash
    /\ RegisterError(Head(todo[l]).id, Head(todo[l]).labels)
    /\ UNCHANGED <<loaderVars, file>>

LoadRejected(l) ==
    /\ Loading(l)
    /\ Head(todo[l]).labels \in FilterClash
    /\ RegisterError(Head(todo[l]).id, Head(todo[l]).labels)
    /\ Done(l)

LoadRegistered(l) ==
    /\ Loading(l)
    /\ Head(todo[l]).labels \notin FilterClash
    /\ \E spec \in OpenApi :
          Register(Head(todo[l]).id, Extract[Head(todo[l]).labels][spec], Head(todo[l]).labels)
    /\ Done(l)

LoadGivenUp(l) ==
    /\ Loading(l)
    /\ Head(todo[l]).id \in Unreachable
    /\ Head(todo[l]).labels \notin FilterClash
    /\ Done(l)
    /\ UNCHANGED registryVars

FinishAtOnce(l) ==              \* faulty: does not wait for the fetches
    /\ phase[l] = "loading"
    /\ phase' = [phase EXCEPT ![l] = "idle"]
    /\ UNCHANGED <<registryVars, file, todo, latest, alone>>

FinishLoad(l) ==
    /\ phase[l] = "loading"
    /\ todo[l] = <<>>
    /\ phase' = [phase EXCEPT ![l] = "idle"]
    /\ UNCHANGED <<registryVars, file, todo, latest, alone>>

LoaderStep(l) == \/ LoadRejected(l)
                 \/ LoadRegistered(l)
                 \/ LoadGivenUp(l)
                 \/ FinishLoad(l)

---------------------------------------------------------------------------
EditFile ==
    /\ file' \in Content
    /\ UNCHANGED <<registryVars, loaderVars>>

(* What discovery does to the other ids, once the watcher runs.            *)
DockerService ==
    /\ Booted
    /\ \E sid \in ServiceId \ Manual :
          \/ \E routes \in RouteList, labels \in DockerLabels : Register(sid, routes, labels)
          \/ \E labels \in DockerLabels : RegisterError(sid, labels)
          \/ Deregister(sid)
    /\ UNCHANGED <<file, loaderVars>>

NextManual == \/ BootLoad
              \/ \E l \in Loader : StartReload(l) \/ LoaderStep(l)
              \/ EditFile
              \/ DockerService

SpecManual == InitManual /\ [][NextManual]_manualVars

(* A load ends each fetch: its attempts are bounded.                       *)
FairSpecManual == SpecManual /\ WF_manualVars(BootLoad)
                             /\ \A l \in Loader : WF_manualVars(LoaderStep(l))

---------------------------------------------------------------------------
(* Types, and that a loader which is not loading has nothing left to do: a *)
(* reload request is not answered before its last fetch has ended          *)
(* (manual_loader.py, lines 23-34).                                        *)
ManualOK ==
    /\ file \in Content
    /\ latest \in Content \cup {NoFile}
    /\ alone \in BOOLEAN
    /\ phase \in [Loader -> {"starting", "idle", "loading"}]
    /\ todo \in [Loader -> Seq(Service)]
    /\ \A l \in Loader : phase[l] # "loading" => todo[l] = <<>>

Declared(content) == IF content \in {NoFile, Broken} THEN {} ELSE Range(content)

(* Each manual entry is one that the file as last read declares, with the  *)
(* labels it declares.                                                     *)
EntriesDeclared ==
    \A sid \in Manual :
        Registered(sid) => [id |-> sid, labels |-> store[sid].labels] \in Declared(latest)

(* And everything it declares has an entry, if only an error entry, unless *)
(* its fetch may fail: a service that is rejected, blocked or unreachable  *)
(* does not keep the following ones from being loaded.                     *)
DeclaredRegistered ==
    \A svc \in Declared(latest) : svc.id \in Unreachable \/ Registered(svc.id)

(* Reload without restart: once a load is over that overlapped no other    *)
(* one, the manual services are those of the file it read, whatever the    *)
(* loads before it did (manual_loader.py, lines 23-34).                    *)
LoadMatchesFile == AllIdle /\ alone => EntriesDeclared /\ DeclaredRegistered

(* A reload request is answered, and the gateway starts, whatever the file *)
(* holds and the services do (main.py, line 53).                           *)
LoadsTerminate == \A l \in Loader : <>(phase[l] = "idle") /\ (phase[l] = "loading" ~> phase[l] = "idle")
================================================================================
