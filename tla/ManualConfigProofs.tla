--------------------------- MODULE ManualConfigProofs ---------------------------
(***************************************************************************)
(* Proofs about the manual services and the registry they are loaded into, *)
(* for any file, any number of reload requests and whatever discovery does *)
(* to the other services.                                                  *)
(***************************************************************************)
EXTENDS ManualConfig, RouteRegistryProofs

StoreOK == store \in [ServiceId -> Entry]

(* Until the boot load starts, there is nothing.                           *)
BootFirst ==
    phase[Boot] = "starting" => /\ \A l \in Reload : phase[l] = "idle"
                                /\ \A sid \in Manual : ~Registered(sid)

(* What is still to be fetched is declared by the file as last read, and   *)
(* so is every entry; what it declares has an entry, or may have failed,   *)
(* or is still to be fetched by someone.                                   *)
TodoDeclared == \A l \in Loader : Range(todo[l]) \subseteq Declared(latest)

NothingForgotten ==
    \A svc \in Declared(latest) :
        svc.id \in Unreachable \/ Registered(svc.id) \/ \E l \in Loader : svc \in Range(todo[l])

LoadInv == /\ ManualOK
           /\ StoreOK
           /\ BootFirst
           /\ alone => EntriesDeclared /\ TodoDeclared /\ NothingForgotten

---------------------------------------------------------------------------
(* The services of a file are manual ones.                                 *)
LEMMA DeclaredServices ==
    ASSUME NEW content \in Content \cup {NoFile}
    PROVE  Declared(content) \subseteq Service
<1>1. CASE content \in {NoFile, Broken}
  BY <1>1 DEF Declared
<1>2. CASE content \notin {NoFile, Broken}
  <2>1. content \in Seq(Service)
    BY <1>2, ContentAssumption
  <2>2. \A n \in DOMAIN content : content[n] \in Service
    BY <2>1, ElementOfSeq
  <2> QED BY <1>2, <2>2 DEF Declared, Range
<1> QED BY <1>1, <1>2

(* What a list that is not empty holds is its head and the rest.           *)
LEMMA HeadAndTail ==
    ASSUME NEW S, NEW s \in Seq(S), s # <<>>
    PROVE  /\ Head(s) \in S
           /\ Tail(s) \in Seq(S)
           /\ Range(s) = {Head(s)} \cup Range(Tail(s))
<1>1. Len(s) \in Nat \ {0} /\ DOMAIN s = 1 .. Len(s)
  BY EmptySeq, LenProperties
<1>2. /\ Head(s) = s[1]
      /\ Tail(s) \in Seq(S)
      /\ Len(Tail(s)) = Len(s) - 1
      /\ \A i \in 1 .. Len(Tail(s)) : Tail(s)[i] = s[i + 1]
  BY HeadTailProperties
<1>3. DOMAIN Tail(s) = 1 .. Len(s) - 1
  BY <1>2, LenProperties
<1>4. ASSUME NEW i \in DOMAIN s
      PROVE  s[i] \in {Head(s)} \cup Range(Tail(s))
  <2>1. CASE i = 1
    BY <1>2, <2>1
  <2>2. CASE i # 1
    <3>1. i - 1 \in 1 .. Len(s) - 1 /\ (i - 1) + 1 = i
      BY <1>1, <2>2
    <3>2. Tail(s)[i - 1] = s[i]
      BY <1>2, <3>1
    <3> QED BY <1>3, <3>1, <3>2 DEF Range
  <2> QED BY <2>1, <2>2
<1>5. ASSUME NEW i \in DOMAIN Tail(s)
      PROVE  Tail(s)[i] \in Range(s)
  <2>1. i + 1 \in DOMAIN s /\ Tail(s)[i] = s[i + 1]
    BY <1>1, <1>2, <1>3
  <2> QED BY <2>1 DEF Range
<1>6. Head(s) \in Range(s)
  BY <1>1, <1>2 DEF Range
<1>7. Head(s) \in S
  BY <1>1, <1>2, ElementOfSeq
<1> QED BY <1>2, <1>4, <1>5, <1>6, <1>7 DEF Range

(* Writing an entry leaves the other ids alone and registers the id.       *)
LEMMA PutEffect ==
    ASSUME StoreOK, NEW sid \in ServiceId, NEW entry \in Entry,
           entry.status # "absent", Put(sid, entry)
    PROVE  /\ StoreOK'
           /\ Registered(sid)'
           /\ store'[sid] = entry
           /\ \A t \in ServiceId \ {sid} : store'[t] = store[t]
BY DEF StoreOK, Put, Registered

(* register() and register_error() leave an entry with the given labels.   *)
LEMMA RegisterEffect ==
    ASSUME StoreOK, NEW sid \in ServiceId, NEW labels \in Labels,
           \/ \E routes \in RouteList : Register(sid, routes, labels)
           \/ RegisterError(sid, labels)
    PROVE  /\ StoreOK'
           /\ Registered(sid)'
           /\ store'[sid].labels = labels
           /\ \A t \in ServiceId \ {sid} : store'[t] = store[t]
<1>1. ASSUME NEW routes \in RouteList
      PROVE  /\ HealthyEntry(routes, labels) \in Entry
             /\ HealthyEntry(routes, labels).status # "absent"
             /\ HealthyEntry(routes, labels).labels = labels
  BY DEF HealthyEntry, Entry, Status
<1>2. ASSUME NEW reason \in {"path_conflict", "filter_conflict"}
      PROVE  /\ ErrorEntry(reason, labels) \in Entry
             /\ ErrorEntry(reason, labels).status # "absent"
             /\ ErrorEntry(reason, labels).labels = labels
  BY DEF ErrorEntry, Entry, Status
<1>3. PICK entry \in Entry : /\ entry.status # "absent"
                             /\ entry.labels = labels
                             /\ Put(sid, entry)
  BY <1>1, <1>2 DEF Register, RegisterHealthy, RegisterBlocked, RegisterError
<1> QED BY <1>3, PutEffect

(* deregister() leaves the other ids alone.                                *)
LEMMA DeregisterEffect ==
    ASSUME StoreOK, NEW sid \in ServiceId, Deregister(sid)
    PROVE  /\ StoreOK'
           /\ \A t \in ServiceId \ {sid} : store'[t] = store[t]
<1>1. NoEntry \in Entry
  BY DEF NoEntry, Entry, Status
<1> QED BY <1>1 DEF StoreOK, Deregister, Pop, registryVars

---------------------------------------------------------------------------
(* A load starts from a file just read, with no entry left of a manual     *)
(* service.                                                                *)
LEMMA StartKeepsInv ==
    ASSUME LoadInv, NEW l \in Loader, StartLoad(l), phase[Boot] # "starting" \/ l = Boot,
           phase[l] # "loading", file' = file, StoreOK',
           \A sid \in Manual : ~Registered(sid)'
    PROVE  LoadInv'
<1> USE DEF LoadInv
<1>1. file \in Content /\ file' \in Content
  BY DEF ManualOK
<1>2. PICK list : list = IF file \in {NoFile, Broken} THEN <<>> ELSE file
  OBVIOUS
<1>3. list \in Seq(Service) /\ Range(list) = Declared(file)
  <2>1. CASE file \in {NoFile, Broken}
    BY <1>2, <2>1 DEF Declared, Range
  <2>2. CASE file \notin {NoFile, Broken}
    BY <1>1, <1>2, <2>2, ContentAssumption DEF Declared
  <2> QED BY <2>1, <2>2
<1>4. todo' = [todo EXCEPT ![l] = list]
  BY <1>2 DEF StartLoad
<1>5. ManualOK'
  BY <1>1, <1>3, <1>4 DEF ManualOK, StartLoad
<1>6. BootFirst'
  BY DEF BootFirst, StartLoad, ManualOK, Loader
<1>7. ASSUME alone'
      PROVE  EntriesDeclared' /\ TodoDeclared' /\ NothingForgotten'
  <2>1. EntriesDeclared'
    BY DEF EntriesDeclared
  <2>2. latest' = file
    BY DEF StartLoad
  <2>3. \A k \in Loader \ {l} : todo'[k] = <<>>
    BY <1>4, <1>7 DEF StartLoad, ManualOK
  <2>4. todo'[l] = list
    BY <1>4 DEF ManualOK
  <2>5. Range(<<>>) = {}
    BY DEF Range
  <2>6. TodoDeclared'
    BY <1>3, <2>2, <2>3, <2>4, <2>5 DEF TodoDeclared
  <2>7. NothingForgotten'
    BY <1>3, <2>2, <2>4 DEF NothingForgotten
  <2> QED BY <2>1, <2>6, <2>7
<1> QED BY <1>5, <1>6, <1>7

(* Nothing that happens to other services or the file disturbs a load.     *)
LEMMA OthersKeepInv ==
    ASSUME LoadInv, StoreOK', file' \in Content, UNCHANGED loaderVars,
           \A sid \in Manual : store'[sid] = store[sid]
    PROVE  LoadInv'
<1>1. \A sid \in Manual : Registered(sid)' <=> Registered(sid)
  BY DEF Registered
<1>2. latest \in Content \cup {NoFile}
  BY DEF LoadInv, ManualOK
<1>3. \A svc \in Declared(latest) : svc.id \in Manual
  BY <1>2, DeclaredServices DEF Service
<1> QED BY <1>1, <1>3 DEF LoadInv, ManualOK, BootFirst, loaderVars, EntriesDeclared,
                          TodoDeclared, NothingForgotten

(* One service of the file is dealt with: it has its entry, or its fetch   *)
(* may fail.                                                               *)
LEMMA FetchKeepsInv ==
    ASSUME LoadInv, NEW l \in Loader, Loading(l), Done(l), StoreOK',
           \A t \in Manual \ {Head(todo[l]).id} : store'[t] = store[t],
           \/ /\ store'[Head(todo[l]).id].status # "absent"
              /\ store'[Head(todo[l]).id].labels = Head(todo[l]).labels
           \/ /\ Head(todo[l]).id \in Unreachable
              /\ store' = store
    PROVE  LoadInv'
<1> USE DEF LoadInv
<1>1. todo[l] \in Seq(Service) /\ todo[l] # <<>>
  BY DEF ManualOK, Loading
<1>2. PICK svc \in Service : svc = Head(todo[l])
  BY <1>1, HeadAndTail
<1>3. PICK rest \in Seq(Service) : rest = Tail(todo[l])
  BY <1>1, HeadAndTail
<1>4. Range(todo[l]) = {svc} \cup Range(rest)
  BY <1>1, <1>2, <1>3, HeadAndTail
<1>5. /\ todo' = [todo EXCEPT ![l] = rest]
      /\ UNCHANGED <<phase, latest, alone, file>>
  BY <1>3 DEF Done
<1>6. ManualOK'
  BY <1>3, <1>5 DEF ManualOK, Loading
<1>7. BootFirst'
  BY <1>5 DEF BootFirst, Loading, Loader
<1>8. svc.id \in Manual /\ svc = [id |-> svc.id, labels |-> svc.labels]
  BY DEF Service
<1>9. ASSUME alone'
      PROVE  EntriesDeclared' /\ TodoDeclared' /\ NothingForgotten'
  <2>1. EntriesDeclared /\ TodoDeclared /\ NothingForgotten
    BY <1>5, <1>9
  <2>2. svc \in Declared(latest)
    BY <1>4, <2>1 DEF TodoDeclared
  <2>3. ASSUME NEW sid \in Manual, Registered(sid)'
        PROVE  [id |-> sid, labels |-> store'[sid].labels] \in Declared(latest)
    <3>1. CASE store'[sid] = store[sid]
      BY <2>1, <2>3, <3>1 DEF EntriesDeclared, Registered
    <3>2. CASE store'[sid] # store[sid]
      <4>1. sid = svc.id /\ store'[sid].labels = svc.labels
        BY <1>2, <3>2
      <4> QED BY <1>8, <2>2, <4>1
    <3> QED BY <3>1, <3>2
  <2>4. EntriesDeclared'
    BY <1>5, <2>3 DEF EntriesDeclared
  <2>5. TodoDeclared'
    BY <1>4, <1>5, <2>1 DEF TodoDeclared, ManualOK
  <2>6. ASSUME NEW s \in Declared(latest)
        PROVE  \/ s.id \in Unreachable
               \/ Registered(s.id)'
               \/ \E k \in Loader : s \in Range(todo'[k])
    <3>1. s.id \in Manual
      <4>1. latest \in Content \cup {NoFile}
        BY DEF ManualOK
      <4> QED BY <4>1, <2>6, DeclaredServices DEF Service
    <3>2. CASE s.id = svc.id
      BY <1>2, <3>2 DEF Registered
    <3>3. CASE s.id # svc.id
      <4>1. Registered(s.id)' <=> Registered(s.id)
        BY <1>2, <3>1, <3>3 DEF Registered
      <4>2. ASSUME NEW k \in Loader, s \in Range(todo[k])
            PROVE  s \in Range(todo'[k])
        BY <1>4, <1>5, <3>3, <4>2 DEF ManualOK
      <4> QED BY <2>1, <2>6, <4>1, <4>2 DEF NothingForgotten
    <3> QED BY <3>2, <3>3
  <2>7. NothingForgotten'
    BY <1>5, <2>6 DEF NothingForgotten
  <2> QED BY <2>4, <2>5, <2>7
<1> QED BY <1>6, <1>7, <1>9

(* A load that has fetched all ends.                                       *)
LEMMA FinishKeepsInv ==
    ASSUME LoadInv, NEW l \in Loader, FinishLoad(l)
    PROVE  LoadInv'
<1>1. ManualOK'
  BY DEF LoadInv, FinishLoad, ManualOK
<1>2. StoreOK' /\ \A sid \in Manual : Registered(sid)' <=> Registered(sid)
  BY DEF LoadInv, FinishLoad, StoreOK, Registered, registryVars
<1>3. BootFirst'
  BY <1>2 DEF LoadInv, FinishLoad, BootFirst, Loader, ManualOK
<1>4. ASSUME alone'
      PROVE  EntriesDeclared' /\ TodoDeclared' /\ NothingForgotten'
  BY <1>4 DEF LoadInv, FinishLoad, EntriesDeclared, TodoDeclared, NothingForgotten,
              registryVars, Registered
<1> QED BY <1>1, <1>2, <1>3, <1>4 DEF LoadInv

---------------------------------------------------------------------------
(* The invariant of loads.                                                 *)
LEMMA LoadInvariant == SpecManual => []LoadInv
<1>1. InitManual => LoadInv
  <2> SUFFICES ASSUME InitManual PROVE LoadInv
    OBVIOUS
  <2>1. NoEntry \in Entry /\ NoEntry.status = "absent"
    BY DEF NoEntry, Entry, Status
  <2>2. StoreOK /\ \A sid \in ServiceId : ~Registered(sid)
    BY <2>1 DEF InitManual, InitRegistry, StoreOK, Registered
  <2>3. ManualOK
    BY DEF InitManual, ManualOK, Loader
  <2>4. BootFirst
    BY <2>2, ReloadAssumption, ManualAssumption DEF InitManual, BootFirst, Loader
  <2>5. EntriesDeclared
    BY <2>2, ManualAssumption DEF EntriesDeclared
  <2>6. Range(<<>>) = {} /\ Declared(latest) = {}
    BY DEF Range, Declared, InitManual
  <2>7. TodoDeclared /\ NothingForgotten
    BY <2>6 DEF InitManual, TodoDeclared, NothingForgotten
  <2> QED BY <2>2, <2>3, <2>4, <2>5, <2>7 DEF LoadInv
<1>2. LoadInv /\ [NextManual]_manualVars => LoadInv'
  <2> SUFFICES ASSUME LoadInv, [NextManual]_manualVars PROVE LoadInv'
    OBVIOUS
  <2>1. StoreOK /\ file \in Content
    BY DEF LoadInv, ManualOK
  <2>2. CASE BootLoad
    <3>1. Boot \in Loader /\ StartLoad(Boot) /\ phase[Boot] = "starting"
      BY <2>2 DEF BootLoad, Loader
    <3>2. file' = file /\ StoreOK' /\ \A sid \in Manual : ~Registered(sid)'
      BY <2>1, <2>2, <3>1 DEF BootLoad, registryVars, StoreOK, Registered, LoadInv, BootFirst
    <3> QED BY <3>1, <3>2, StartKeepsInv
  <2>3. ASSUME NEW l \in Loader, StartReload(l)
        PROVE  LoadInv'
    <3>1. StartLoad(l) /\ phase[l] = "idle" /\ phase[Boot] = "idle" /\ file' = file
      BY <2>3 DEF StartReload, Booted
    <3>2. NoEntry \in Entry /\ NoEntry.status = "absent"
      BY DEF NoEntry, Entry, Status
    <3>3. StoreOK' /\ \A sid \in Manual : ~Registered(sid)'
      BY <2>1, <2>3, <3>2, ManualAssumption
      DEF StartReload, DropManual, StoreOK, Registered
    <3> QED BY <3>1, <3>3, StartKeepsInv
  <2>4. ASSUME NEW l \in Loader, LoadRejected(l) \/ LoadRegistered(l)
        PROVE  LoadInv'
    <3>1. Loading(l) /\ Done(l)
      BY <2>4 DEF LoadRejected, LoadRegistered
    <3>2. todo[l] \in Seq(Service) /\ todo[l] # <<>>
      BY <3>1 DEF LoadInv, ManualOK, Loading
    <3>3. PICK svc \in Service : svc = Head(todo[l])
      BY <3>2, HeadAndTail
    <3>4. svc.id \in ServiceId /\ svc.labels \in Labels
      BY ManualAssumption DEF Service
    <3>5. \/ \E routes \in RouteList : Register(svc.id, routes, svc.labels)
          \/ RegisterError(svc.id, svc.labels)
      BY <2>4, <3>3, <3>4, ExtractAssumption DEF LoadRejected, LoadRegistered
    <3>6. PICK sid \in ServiceId, labels \in Labels : sid = svc.id /\ labels = svc.labels
      BY <3>4
    <3>7. \/ \E routes \in RouteList : Register(sid, routes, labels)
          \/ RegisterError(sid, labels)
      BY <3>5, <3>6
    <3>8. /\ StoreOK'
          /\ Registered(sid)'
          /\ store'[sid].labels = labels
          /\ \A t \in ServiceId \ {sid} : store'[t] = store[t]
      BY <2>1, <3>7, RegisterEffect
    <3>9. /\ store'[Head(todo[l]).id].status # "absent"
          /\ store'[Head(todo[l]).id].labels = Head(todo[l]).labels
      BY <3>3, <3>6, <3>8 DEF Registered
    <3>10. \A t \in Manual \ {Head(todo[l]).id} : store'[t] = store[t]
      BY <3>3, <3>6, <3>8, ManualAssumption
    <3> QED BY <3>1, <3>8, <3>9, <3>10, FetchKeepsInv
  <2>5. ASSUME NEW l \in Loader, LoadGivenUp(l)
        PROVE  LoadInv'
    <3>1. Loading(l) /\ Done(l) /\ Head(todo[l]).id \in Unreachable /\ store' = store
      BY <2>5 DEF LoadGivenUp, registryVars
    <3>2. StoreOK'
      BY <2>1, <3>1 DEF StoreOK
    <3> QED BY <3>1, <3>2, FetchKeepsInv
  <2>6. CASE EditFile
    <3>1. file' \in Content /\ store' = store /\ UNCHANGED loaderVars
      BY <2>6 DEF EditFile, registryVars
    <3>2. StoreOK'
      BY <2>1, <3>1 DEF StoreOK
    <3> QED BY <3>1, <3>2, OthersKeepInv
  <2>7. CASE DockerService
    <3>1. PICK sid \in ServiceId \ Manual :
              \/ \E routes \in RouteList, labels \in DockerLabels : Register(sid, routes, labels)
              \/ \E labels \in DockerLabels : RegisterError(sid, labels)
              \/ Deregister(sid)
      BY <2>7 DEF DockerService
    <3>2. StoreOK' /\ \A t \in ServiceId \ {sid} : store'[t] = store[t]
      BY <2>1, <3>1, RegisterEffect, DeregisterEffect, BoundAssumption
    <3>3. file' \in Content /\ UNCHANGED loaderVars
      BY <2>1, <2>7 DEF DockerService
    <3> QED BY <3>2, <3>3, OthersKeepInv, ManualAssumption
  <2>8. CASE UNCHANGED manualVars
    <3>1. file' \in Content /\ store' = store /\ UNCHANGED loaderVars
      BY <2>1, <2>8 DEF manualVars, registryVars
    <3>2. StoreOK'
      BY <2>1, <3>1 DEF StoreOK
    <3> QED BY <3>1, <3>2, OthersKeepInv
  <2> QED BY <2>2, <2>3, <2>4, <2>5, <2>6, <2>7, <2>8, FinishKeepsInv DEF NextManual, LoaderStep
<1> QED BY <1>1, <1>2, PTL DEF SpecManual

(* A reload request is not answered before its last fetch has ended.       *)
THEOREM ManualStructure == SpecManual => []ManualOK
<1>1. LoadInv => ManualOK
  BY DEF LoadInv
<1> QED BY <1>1, LoadInvariant, PTL

(* After a load that overlapped no other, the manual services are those of *)
(* the file it read.                                                       *)
THEOREM LoadsFollowTheFile == SpecManual => []LoadMatchesFile
<1>1. LoadInv => LoadMatchesFile
  <2> SUFFICES ASSUME LoadInv, AllIdle, alone PROVE EntriesDeclared /\ DeclaredRegistered
    BY DEF LoadMatchesFile
  <2>1. \A l \in Loader : Range(todo[l]) = {}
    <3>1. Range(<<>>) = {}
      BY DEF Range
    <3> QED BY <3>1 DEF LoadInv, ManualOK, AllIdle
  <2> QED BY <2>1 DEF LoadInv, NothingForgotten, DeclaredRegistered
<1> QED BY <1>1, LoadInvariant, PTL

---------------------------------------------------------------------------
(* The registry under loads and reloads.                                   *)
(* A reload leaves the registry well-formed,                               *)
LEMMA DropKeepsRegistryOK ==
    ASSUME RegistryOK, DropManual
    PROVE  RegistryOK'
<1>1. /\ store \in [ServiceId -> Entry]
      /\ order \in Seq(ServiceId)
      /\ IsInjective(order)
      /\ Range(order) = {sid \in ServiceId : Registered(sid)}
  BY DEF RegistryOK, TypeOKRegistry, OrderOK
<1>2. NoEntry \in Entry /\ NoEntry.status = "absent" /\ NoEntry.routes = <<>>
  BY DEF NoEntry, Entry, Status
<1>3. /\ store' \in [ServiceId -> Entry]
      /\ \A sid \in ServiceId :
            store'[sid] = IF sid \in Manual THEN NoEntry ELSE store[sid]
  BY <1>1, <1>2 DEF DropManual
<1>4. /\ order' \in Seq(ServiceId)
      /\ IsInjective(order')
      /\ Range(order') = Range(order) \ Manual
  BY <1>1, AmongProperties DEF DropManual
<1>5. OrderOK'
  BY <1>1, <1>2, <1>3, <1>4 DEF OrderOK, Registered
<1>6. ErrorsExposeNothing'
  BY <1>2, <1>3 DEF RegistryOK, ErrorsExposeNothing
<1> QED BY <1>3, <1>4, <1>5, <1>6 DEF RegistryOK, TypeOKRegistry

(* and only withdraws routes:                                              *)
LEMMA DropOnlyWithdraws ==
    ASSUME StoreOK, DropManual
    PROVE  \A sid \in ServiceId : store'[sid].status = "ok" => store'[sid] = store[sid]
BY DEF StoreOK, DropManual, NoEntry

(* so a route of one service only remains so,                              *)
LEMMA DropKeepsSingleOwner ==
    ASSUME StoreOK, SingleOwner, DropManual
    PROVE  SingleOwner'
BY DropOnlyWithdraws DEF SingleOwner, Keys

(* Whatever a loader, discovery or the operator does is an operation of    *)
(* the registry, nothing at all to it, or the first part of a reload.      *)
LEMMA ManualStepOnRegistry ==
    ASSUME LoadInv, [NextManual]_manualVars
    PROVE  [NextRegistry]_registryVars \/ DropManual
<1>1. CASE BootLoad \/ EditFile \/ UNCHANGED manualVars
  BY <1>1 DEF BootLoad, EditFile, manualVars
<1>2. ASSUME NEW l \in Loader, StartReload(l)
      PROVE  DropManual
  BY <1>2 DEF StartReload
<1>3. ASSUME NEW l \in Loader, LoadRejected(l) \/ LoadRegistered(l)
      PROVE  NextRegistry
  <2>1. todo[l] \in Seq(Service) /\ todo[l] # <<>>
    BY <1>3 DEF LoadInv, ManualOK, LoadRejected, LoadRegistered, Loading
  <2>2. PICK svc \in Service : svc = Head(todo[l])
    BY <2>1, HeadAndTail
  <2>3. PICK sid \in ServiceId, labels \in Labels : sid = svc.id /\ labels = svc.labels
    BY ManualAssumption DEF Service
  <2>4. \/ \E routes \in RouteList : Register(sid, routes, labels)
        \/ RegisterError(sid, labels)
    BY <1>3, <2>2, <2>3, ExtractAssumption DEF LoadRejected, LoadRegistered
  <2> QED BY <2>4 DEF NextRegistry
<1>4. ASSUME NEW l \in Loader, LoadGivenUp(l) \/ FinishLoad(l)
      PROVE  UNCHANGED registryVars
  BY <1>4 DEF LoadGivenUp, FinishLoad
<1>5. ASSUME DockerService
      PROVE  NextRegistry
  BY <1>5, BoundAssumption DEF DockerService, NextRegistry
<1> QED BY <1>1, <1>2, <1>3, <1>4, <1>5 DEF NextManual, LoaderStep

(* So the two halves of the dictionary agree,                              *)
THEOREM ManualRegistryStructure == SpecManual => []RegistryOK
<1>1. InitManual => RegistryOK
  BY InitRegistryOK DEF InitManual
<1>2. RegistryOK /\ LoadInv /\ [NextManual]_manualVars => RegistryOK'
  BY ManualStepOnRegistry, RegistryStepKeepsRegistryOK, DropKeepsRegistryOK
<1> QED BY <1>1, <1>2, LoadInvariant, PTL DEF SpecManual

(* and no two healthy services expose the same route, whatever the file    *)
(* declares and however often it is reloaded.                              *)
THEOREM ManualSingleOwner == SpecManual => []SingleOwner
<1>1. InitManual => SingleOwner
  BY InitSingleOwner DEF InitManual
<1>2. SingleOwner /\ RegistryOK /\ LoadInv /\ [NextManual]_manualVars => SingleOwner'
  <2> SUFFICES ASSUME SingleOwner, RegistryOK, LoadInv, [NextManual]_manualVars
               PROVE  SingleOwner'
    OBVIOUS
  <2>1. CASE [NextRegistry]_registryVars
    BY <2>1, RegistryStepKeepsSingleOwner
  <2>2. CASE DropManual
    BY <2>2, DropKeepsSingleOwner DEF LoadInv
  <2> QED BY <2>1, <2>2, ManualStepOnRegistry
<1> QED BY <1>1, <1>2, LoadInvariant, ManualRegistryStructure, PTL DEF SpecManual

(* Neither loads nor reloads affect the requests that one pattern only     *)
(* matches and that a service they do not touch answers.                   *)
THEOREM ManualIsolation == SpecManual => UnambiguousUnaffected
<1>1. RegistryOK /\ SingleOwner => OwnerAnswers
  BY OnlyOwnerAnswers DEF OwnerAnswers
<1>2. RegistryOK /\ OwnerAnswers /\ OwnerAnswers' =>
         [\A m \in Method, p \in Path : Unambiguous(p) => KeepsAnswering(m, p)]_registryVars
  BY OwnerKeepsAnswering
<1> QED BY <1>1, <1>2, ManualRegistryStructure, ManualSingleOwner, PTL
        DEF UnambiguousUnaffected

(* No service of the file shadows what is already served.                  *)
THEOREM ManualNoShadowing == SpecManual => NewcomerNeverShadows
<1>1. LoadInv /\ RegistryOK /\ RegistryOK' /\ [NextManual]_manualVars =>
         [\A m \in Method, p \in Path :
             \A sid \in ServiceId :
                 /\ ~Registered(sid)
                 /\ Registered(sid)'
                 /\ Resolve(m, p) # Unresolved
                 => Resolve(m, p)' = Resolve(m, p)]_registryVars
  <2> SUFFICES ASSUME LoadInv, RegistryOK, RegistryOK', [NextManual]_manualVars,
                      NEW m \in Method, NEW p \in Path, NEW sid \in ServiceId,
                      ~Registered(sid), Registered(sid)', Resolve(m, p) # Unresolved
               PROVE  Resolve(m, p)' = Resolve(m, p)
    OBVIOUS
  <2>1. CASE [NextRegistry]_registryVars
    BY <2>1, NewcomerIsSearchedLast
  <2>2. CASE DropManual
    BY <2>2 DEF DropManual, Registered, NoEntry
  <2> QED BY <2>1, <2>2, ManualStepOnRegistry
<1> QED BY <1>1, LoadInvariant, ManualRegistryStructure, PTL
        DEF SpecManual, NewcomerNeverShadows
================================================================================
