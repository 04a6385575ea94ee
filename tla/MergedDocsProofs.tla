---------------------------- MODULE MergedDocsProofs ----------------------------
(***************************************************************************)
(* Proofs about the registry with its documents, for all services, names   *)
(* and documents.                                                          *)
(***************************************************************************)
EXTENDS MergedDocs, RouteRegistryProofs

(* The documents come with the entries and change nothing about them.      *)
LEMMA DocsStepIsRegistryStep ==
    ASSUME [NextDocs]_docsVars
    PROVE  [NextRegistry]_registryVars
<1>1. ASSUME NEW sid \in ServiceId, NEW doc \in OpenApi, NEW labels \in Labels,
             NEW name, RegisterSpec(sid, doc, labels, name)
      PROVE  NextRegistry
  <2>1. Register(sid, Extracted(doc), labels) /\ Extracted(doc) \in RouteList
    BY <1>1, ExtractedAssumption DEF RegisterSpec
  <2> QED BY <2>1 DEF NextRegistry
<1>2. ASSUME NEW sid \in ServiceId, NEW labels \in Labels, NEW name,
             RegisterErrorSpec(sid, labels, name)
      PROVE  NextRegistry
  BY <1>2 DEF RegisterErrorSpec, NextRegistry
<1>3. ASSUME NEW sid \in ServiceId, DeregisterSpec(sid) PROVE NextRegistry
  BY <1>3 DEF DeregisterSpec, NextRegistry
<1>4. CASE UNCHANGED docsVars
  BY <1>4 DEF docsVars
<1> QED BY <1>1, <1>2, <1>3, <1>4 DEF NextDocs

(* So all that is proved of the registry holds of it with its documents.   *)
THEOREM DocsImplementRegistry == SpecDocs => SpecRegistry
<1>1. InitDocs => InitRegistry
  BY DEF InitDocs
<1> QED BY <1>1, DocsStepIsRegistryStep, PTL DEF SpecDocs, SpecRegistry

(* No two healthy services share a route, newcomers shadow nothing, no     *)
(* service affects another's requests, and routes change hands as in the   *)
(* table of owners (route_registry.py, lines 26-82, with the documents).   *)
THEOREM DocsKeepOwners ==
    SpecDocs => /\ []SingleOwner
                /\ NewcomerNeverShadows
                /\ UnambiguousUnaffected
                /\ ImplementsOwnershipTable
BY DocsImplementRegistry, SingleOwnership, RegistryNoShadowing, RegistryIsolation,
   RegistryImplementsOwnershipTable, PTL

(* The registry's structure, in particular, which gives each entry its     *)
(* place in the order.                                                     *)
LEMMA DocsRegistryOK == SpecDocs => []RegistryOK
BY DocsImplementRegistry, RegistryStructure, PTL

---------------------------------------------------------------------------
(* A name that labels and container give is a name, not None.              *)
LEMMA NamesAreNames ==
    ASSUME NEW sid \in ServiceId, NEW labels \in Labels, NEW name \in NamesOf[sid][labels]
    PROVE  name \in Names /\ name # None
<1>1. None \notin NamesOf[sid][labels]
  BY NamesAssumption
<1>2. name \in UNION {NamesOf[sid][l] : l \in Labels}
  OBVIOUS
<1> QED BY <1>1, <1>2 DEF Names

(* A method that writes the entry of sid writes its document and its name  *)
(* with it.                                                                *)
LEMMA EntryAndDoc ==
    ASSUME EntriesKeepDocs, store \in [ServiceId -> Entry], NEW sid \in ServiceId,
           NEW entry, NEW doc \in OpenApi \cup {None}, NEW name \in Names \cup {None},
           store' = [store EXCEPT ![sid] = entry], rawSpec' = [rawSpec EXCEPT ![sid] = doc],
           serviceName' = [serviceName EXCEPT ![sid] = name],
           entry.status = "ok" <=> doc # None,
           doc # None => entry.routes = Extracted(doc),
           entry.status # "absent" <=> name # None
    PROVE  EntriesKeepDocs'
<1>1. /\ rawSpec' \in [ServiceId -> OpenApi \cup {None}]
      /\ serviceName' \in [ServiceId -> Names \cup {None}]
  BY DEF EntriesKeepDocs
<1>2. ASSUME NEW s \in ServiceId
      PROVE  /\ store'[s].status = "ok" <=> rawSpec'[s] # None
             /\ rawSpec'[s] # None => store'[s].routes = Extracted(rawSpec'[s])
             /\ store'[s].status # "absent" <=> serviceName'[s] # None
  <2>1. CASE s = sid
    <3>1. store'[s] = entry /\ rawSpec'[s] = doc /\ serviceName'[s] = name
      BY <2>1 DEF EntriesKeepDocs
    <3> QED BY <3>1
  <2>2. CASE s # sid
    <3>1. store'[s] = store[s] /\ rawSpec'[s] = rawSpec[s] /\ serviceName'[s] = serviceName[s]
      BY <2>2 DEF EntriesKeepDocs
    <3> QED BY <3>1 DEF EntriesKeepDocs, Registered
  <2> QED BY <2>1, <2>2
<1> HIDE DEF Extracted
<1> QED BY <1>1, <1>2 DEF EntriesKeepDocs, Registered

(* Whatever services register, fail or leave, each healthy entry keeps the *)
(* document that its routes come from, no other entry keeps one, and every *)
(* entry has a name.                                                       *)
THEOREM DocsBelongToEntries == SpecDocs => []EntriesKeepDocs
<1>1. InitDocs => EntriesKeepDocs
  BY DEF InitDocs, InitRegistry, EntriesKeepDocs, NoEntry, Registered
<1>2. RegistryOK /\ EntriesKeepDocs /\ [NextDocs]_docsVars => EntriesKeepDocs'
  <2> SUFFICES ASSUME RegistryOK, EntriesKeepDocs, [NextDocs]_docsVars PROVE EntriesKeepDocs'
    OBVIOUS
  <2>1. store \in [ServiceId -> Entry]
    BY DEF RegistryOK, TypeOKRegistry
  <2>2. ASSUME NEW sid \in ServiceId, NEW doc \in OpenApi, NEW labels \in Labels,
               NEW name \in NamesOf[sid][labels], RegisterSpec(sid, doc, labels, name)
        PROVE  EntriesKeepDocs'
    <3>0. serviceName' = [serviceName EXCEPT ![sid] = name]
      BY <2>2 DEF RegisterSpec
    <3>1. CASE RegisterHealthy(sid, Extracted(doc), labels)
      <4>1. /\ store' = [store EXCEPT ![sid] = HealthyEntry(Extracted(doc), labels)]
            /\ rawSpec' = [rawSpec EXCEPT ![sid] = doc]
        BY <2>2, <3>1 DEF RegisterSpec, RegisterHealthy, Put
      <4> QED BY <2>1, <2>2, <3>0, <4>1, NamesAreNames, EntryAndDoc, OpenApiAssumption
              DEF HealthyEntry
    <3>2. CASE RegisterBlocked(sid, Extracted(doc), labels)
      <4>1. /\ store' = [store EXCEPT ![sid] = ErrorEntry("path_conflict", labels)]
            /\ rawSpec' = [rawSpec EXCEPT ![sid] = None]
        BY <2>2, <3>2 DEF RegisterSpec, RegisterBlocked, Put
      <4> QED BY <2>1, <2>2, <3>0, <4>1, NamesAreNames, EntryAndDoc DEF ErrorEntry
    <3> QED BY <2>2, <3>1, <3>2 DEF RegisterSpec, Register
  <2>3. ASSUME NEW sid \in ServiceId, NEW labels \in Labels, NEW name \in NamesOf[sid][labels],
               RegisterErrorSpec(sid, labels, name)
        PROVE  EntriesKeepDocs'
    <3>1. /\ store' = [store EXCEPT ![sid] = ErrorEntry("filter_conflict", labels)]
          /\ rawSpec' = [rawSpec EXCEPT ![sid] = None]
          /\ serviceName' = [serviceName EXCEPT ![sid] = name]
      BY <2>3 DEF RegisterErrorSpec, RegisterError, Put
    <3> QED BY <2>1, <2>3, <3>1, NamesAreNames, EntryAndDoc DEF ErrorEntry
  <2>4. ASSUME NEW sid \in ServiceId, DeregisterSpec(sid)
        PROVE  EntriesKeepDocs'
    <3>0. /\ rawSpec' = [rawSpec EXCEPT ![sid] = None]
          /\ serviceName' = [serviceName EXCEPT ![sid] = None]
      BY <2>4 DEF DeregisterSpec
    <3>1. CASE Registered(sid)
      <4>1. store' = [store EXCEPT ![sid] = NoEntry]
        BY <2>4, <3>1 DEF DeregisterSpec, Deregister, Pop
      <4> QED BY <2>1, <2>4, <3>0, <4>1, EntryAndDoc DEF NoEntry
    <3>2. CASE ~Registered(sid)
      <4>1. store[sid].status = "absent"
        BY <3>2 DEF Registered
      <4>2. store' = [store EXCEPT ![sid] = store[sid]]
        BY <2>1, <2>4, <3>2 DEF DeregisterSpec, Deregister, registryVars
      <4> QED BY <2>1, <2>4, <3>0, <4>1, <4>2, EntryAndDoc
    <3> QED BY <3>1, <3>2
  <2>5. CASE UNCHANGED docsVars
    BY <2>5 DEF docsVars, registryVars, EntriesKeepDocs, Registered
  <2> QED BY <2>2, <2>3, <2>4, <2>5 DEF NextDocs
<1> QED BY <1>1, <1>2, DocsRegistryOK, PTL DEF SpecDocs

---------------------------------------------------------------------------
(* Views by name.  n is the last position of a name in the dictionary.     *)
LastOf(name, n) == /\ n \in DOMAIN order
                   /\ serviceName[order[n]] = name
                   /\ \A k \in DOMAIN order : serviceName[order[k]] = name => k <= n

(* What status() shows of a name is what stands at its last position.      *)
LEMMA StatusIsLast ==
    ASSUME RegistryOK, NEW name, NEW n, LastOf(name, n)
    PROVE  StatusOf(name) = order[n]
<1> DEFINE T == {i \in DOMAIN order : serviceName[order[i]] = name}
<1>1. DOMAIN order = 1 .. Len(order) /\ Len(order) \in Nat
  BY LenProperties DEF RegistryOK, TypeOKRegistry
<1>2. T \in SUBSET (1 .. Len(order)) /\ n \in T /\ \A k \in T : k <= n
  BY <1>1 DEF LastOf
<1>3. Max(T) \in T /\ n <= Max(T)
  <2> HIDE DEF T
  <2> QED BY <1>1, <1>2, MaxProperty
<1>4. Max(T) = n
  <2>1. Max(T) <= n /\ Max(T) \in Nat /\ n \in Nat
    BY <1>1, <1>2, <1>3
  <2> QED BY <1>3, <2>1
<1> QED BY <1>4 DEF StatusOf

(* A registered id is shown when it stands there.                          *)
ShownByLast ==
    \A sid \in ServiceId :
        Shown(sid) <=> \E n \in DOMAIN order : LastOf(serviceName[sid], n) /\ order[n] = sid

(* The same, of every state of the registry with its documents.            *)
LEMMA DocsShownByLast == SpecDocs => []ShownByLast
<1>1. RegistryOK => ShownByLast
  <2> SUFFICES ASSUME RegistryOK, NEW sid \in ServiceId
               PROVE  Shown(sid) <=> \E n \in DOMAIN order : LastOf(serviceName[sid], n) /\ order[n] = sid
    BY DEF ShownByLast
  <2>1. DOMAIN order = 1 .. Len(order) /\ Len(order) \in Nat
    BY LenProperties DEF RegistryOK, TypeOKRegistry
  <2>2. Range(order) = {s \in ServiceId : Registered(s)}
    BY DEF RegistryOK, OrderOK
  <2>3. ASSUME Shown(sid)
        PROVE  \E n \in DOMAIN order : LastOf(serviceName[sid], n) /\ order[n] = sid
    <3> DEFINE T == {i \in DOMAIN order : serviceName[order[i]] = serviceName[sid]}
    <3>1. T # {} /\ T \in SUBSET (1 .. Len(order))
      BY <2>1, <2>2, <2>3 DEF Shown, Range
    <3>2. Max(T) \in T /\ \A k \in T : k <= Max(T)
      <4> HIDE DEF T
      <4> QED BY <2>1, <3>1, MaxProperty
    <3>3. LastOf(serviceName[sid], Max(T))
      BY <3>2 DEF LastOf
    <3> QED BY <2>3, <3>2, <3>3, StatusIsLast DEF Shown
  <2>4. ASSUME NEW n \in DOMAIN order, LastOf(serviceName[sid], n), order[n] = sid
        PROVE  Shown(sid)
    BY <2>2, <2>4, StatusIsLast DEF Shown, Range
  <2> QED BY <2>3, <2>4
<1> QED BY <1>1, DocsRegistryOK, PTL

(* The dictionary stays as it is, grows at its end or loses one key.       *)
LEMMA OrderMoves ==
    ASSUME RegistryOK, [NextRegistry]_registryVars
    PROVE  \/ order' = order
           \/ \E t \in ServiceId : /\ ~Registered(t) /\ Registered(t)'
                                   /\ order' = Append(order, t)
           \/ \E t \in ServiceId : /\ Registered(t) /\ ~Registered(t)'
                                   /\ order' = RemoveFirst(order, t)
<1>1. store \in [ServiceId -> Entry]
  BY DEF RegistryOK, TypeOKRegistry
<1>2. ASSUME NEW t \in ServiceId, NEW entry, entry.status # "absent", Put(t, entry)
      PROVE  \/ order' = order
             \/ ~Registered(t) /\ Registered(t)' /\ order' = Append(order, t)
  BY <1>1, <1>2 DEF Put, Registered
<1>3. ASSUME NEW t \in ServiceId, Deregister(t)
      PROVE  \/ order' = order
             \/ Registered(t) /\ ~Registered(t)' /\ order' = RemoveFirst(order, t)
  BY <1>1, <1>3 DEF Deregister, Pop, Registered, NoEntry, registryVars
<1>4. ASSUME NEW t \in ServiceId, NEW routes, NEW labels, Register(t, routes, labels)
      PROVE  \/ order' = order
             \/ ~Registered(t) /\ Registered(t)' /\ order' = Append(order, t)
  BY <1>2, <1>4 DEF Register, RegisterHealthy, RegisterBlocked, HealthyEntry, ErrorEntry
<1>5. ASSUME NEW t \in ServiceId, NEW labels, RegisterError(t, labels)
      PROVE  \/ order' = order
             \/ ~Registered(t) /\ Registered(t)' /\ order' = Append(order, t)
  BY <1>2, <1>5 DEF RegisterError, ErrorEntry
<1>6. CASE UNCHANGED registryVars
  BY <1>6 DEF registryVars
<1> QED BY <1>3, <1>4, <1>5, <1>6 DEF NextRegistry

(* Who leaves uncovers others of his name but covers nobody, unless one    *)
(* of these takes the name only now.                                       *)
LEMMA RemovalKeepsLast ==
    ASSUME RegistryOK, NEW t \in Range(order), order' = RemoveFirst(order, t),
           NEW name, NEW n \in DOMAIN order, LastOf(name, n), order[n] # t,
           serviceName'[order[n]] = name,
           \A s \in ServiceId : serviceName'[s] = name => serviceName[s] = name
    PROVE  \E k \in DOMAIN order' : LastOf(name, k)' /\ order'[k] = order[n]
<1>1. order \in Seq(ServiceId) /\ IsInjective(order)
  BY DEF RegistryOK, TypeOKRegistry, OrderOK
<1>2. Len(order) \in Nat /\ DOMAIN order = 1 .. Len(order)
  BY <1>1, LenProperties
<1>3. PICK i \in 1 .. Len(order) : order[i] = t /\ order' = RemoveAt(order, i)
  BY <1>1, RemoveFirstIsRemoveAt
<1>4. /\ order' \in Seq(ServiceId)
      /\ Len(order') = Len(order) - 1
      /\ \A j \in 1 .. Len(order) - 1 : order'[j] = IF j < i THEN order[j] ELSE order[j + 1]
  BY <1>1, <1>3, RemoveAtProperties
<1>5. DOMAIN order' = 1 .. Len(order) - 1
  BY <1>4, LenProperties
<1> DEFINE k == IF n < i THEN n ELSE n - 1
<1>6. n # i /\ n \in 1 .. Len(order)
  BY <1>2, <1>3
<1>7. k \in 1 .. Len(order) - 1 /\ order'[k] = order[n]
  <2>1. CASE n < i
    BY <1>2, <1>4, <1>6, <2>1
  <2>2. CASE ~(n < i)
    <3>1. n - 1 \in 1 .. Len(order) - 1 /\ ~(n - 1 < i) /\ (n - 1) + 1 = n
      BY <1>2, <1>6, <2>2
    <3> QED BY <1>4, <2>2, <3>1
  <2> QED BY <2>1, <2>2
<1>8. ASSUME NEW j \in DOMAIN order', serviceName'[order'[j]] = name PROVE j <= k
  <2>0. j \in 1 .. Len(order) - 1
    BY <1>5
  <2>9. serviceName[order'[j]] = name
    BY <1>4, <1>8, ElementOfSeq, <2>0
  <2>1. CASE j < i
    <3>1. order'[j] = order[j] /\ j \in 1 .. Len(order)
      BY <1>2, <1>4, <2>0, <2>1
    <3>2. j <= n
      BY <1>2, <2>9, <3>1 DEF LastOf
    <3> QED BY <1>2, <1>6, <2>0, <2>1, <3>2
  <2>2. CASE ~(j < i)
    <3>1. order'[j] = order[j + 1] /\ j + 1 \in 1 .. Len(order)
      BY <1>2, <1>4, <2>0, <2>2
    <3>2. j + 1 <= n
      BY <1>2, <2>9, <3>1 DEF LastOf
    <3> QED BY <1>2, <1>6, <2>0, <2>2, <3>2
  <2> QED BY <2>1, <2>2
<1>9. serviceName'[order'[k]] = name
  BY <1>7
<1> HIDE DEF k
<1>10. LastOf(name, k)'
  BY <1>5, <1>7, <1>8, <1>9 DEF LastOf
<1> QED BY <1>5, <1>7, <1>10

(* When nobody takes the name of a service that keeps it, the service is   *)
(* last of its name after a step if it was before.                         *)
LEMMA StaysLast ==
    ASSUME RegistryOK, EntriesKeepDocs, [NextRegistry]_registryVars,
           NEW sid \in ServiceId, Registered(sid), Registered(sid)',
           NEW name, serviceName[sid] = name, serviceName'[sid] = name,
           \A t \in ServiceId : serviceName'[t] = name => serviceName[t] = name,
           NEW n \in DOMAIN order, LastOf(name, n), order[n] = sid
    PROVE  \E k \in DOMAIN order' : LastOf(name, k)' /\ order'[k] = sid
<1>1. order \in Seq(ServiceId) /\ Range(order) = {s \in ServiceId : Registered(s)}
  BY DEF RegistryOK, TypeOKRegistry, OrderOK
<1>2. Len(order) \in Nat /\ DOMAIN order = 1 .. Len(order)
  BY <1>1, LenProperties
<1>3. \A k \in DOMAIN order : serviceName'[order[k]] = name => k <= n
  BY <1>1, <1>2, ElementOfSeq DEF LastOf
<1>4. CASE order' = order
  BY <1>3, <1>4 DEF LastOf
<1>5. CASE \E t \in ServiceId : /\ Registered(t) /\ ~Registered(t)'
                                /\ order' = RemoveFirst(order, t)
  <2>1. PICK t \in ServiceId : /\ Registered(t) /\ ~Registered(t)'
                               /\ order' = RemoveFirst(order, t)
    BY <1>5
  <2>2. t # sid /\ t \in Range(order)
    BY <1>1, <2>1
  <2> QED BY <2>1, <2>2, RemovalKeepsLast
<1>6. CASE \E t \in ServiceId : /\ ~Registered(t) /\ Registered(t)'
                                /\ order' = Append(order, t)
  <2>1. PICK t \in ServiceId : ~Registered(t) /\ order' = Append(order, t)
    BY <1>6
  <2>2. serviceName[t] = None /\ name # None
    BY <2>1 DEF EntriesKeepDocs
  <2>3. serviceName'[t] # name
    BY <2>2
  <2>4. /\ DOMAIN order' = 1 .. Len(order) + 1
        /\ \A i \in 1 .. Len(order) : order'[i] = order[i]
        /\ order'[Len(order) + 1] = t
    BY <1>1, <1>2, <2>1, AppendProperties, LenProperties
  <2>5. ASSUME NEW k \in DOMAIN order', serviceName'[order'[k]] = name PROVE k <= n
    <3>1. k # Len(order) + 1
      BY <2>3, <2>4, <2>5
    <3>2. k \in 1 .. Len(order)
      BY <1>2, <2>4, <3>1
    <3> QED BY <1>2, <1>3, <2>4, <2>5, <3>2
  <2>6. n \in DOMAIN order' /\ order'[n] = sid
    BY <1>2, <2>4
  <2> QED BY <2>5, <2>6 DEF LastOf
<1> QED BY <1>4, <1>5, <1>6, OrderMoves

(* What status() shows stays shown until its name is taken, by a newcomer  *)
(* or by a service that is registered again under it, or it takes another. *)
THEOREM HiddenByNameOnly == SpecDocs => ShownUntilNameTaken
<1>1. ASSUME RegistryOK, EntriesKeepDocs, [NextRegistry]_registryVars,
             ShownByLast, ShownByLast',
             NEW sid \in ServiceId, Shown(sid), Registered(sid)', ~Shown(sid)',
             serviceName'[sid] = serviceName[sid]
      PROVE  \E t \in ServiceId \ {sid} : /\ serviceName'[t] = serviceName[sid]
                                          /\ serviceName[t] # serviceName[sid]
  <2> SUFFICES ASSUME \A t \in ServiceId \ {sid} : serviceName'[t] = serviceName[sid]
                                                      => serviceName[t] = serviceName[sid]
               PROVE  FALSE
    OBVIOUS
  <2>1. PICK name : name = serviceName[sid]
    OBVIOUS
  <2>2. PICK n \in DOMAIN order : LastOf(name, n) /\ order[n] = sid
    BY <1>1, <2>1 DEF ShownByLast
  <2>3. Registered(sid)
    BY <1>1 DEF Shown
  <2>4. \A t \in ServiceId : serviceName'[t] = name => serviceName[t] = name
    BY <2>1
  <2>5. \E k \in DOMAIN order' : LastOf(name, k)' /\ order'[k] = sid
    BY <1>1, <2>1, <2>2, <2>3, <2>4, StaysLast
  <2>6. Shown(sid)'
    BY <1>1, <2>1, <2>5 DEF ShownByLast, LastOf
  <2> QED BY <1>1, <2>6
<1>2. RegistryOK /\ EntriesKeepDocs /\ ShownByLast /\ ShownByLast' /\ [NextDocs]_docsVars =>
         [\A sid \in ServiceId :
             Shown(sid) /\ Registered(sid)' /\ ~Shown(sid)' =>
                 \/ serviceName'[sid] # serviceName[sid]
                 \/ \E t \in ServiceId \ {sid} : /\ serviceName'[t] = serviceName[sid]
                                                 /\ serviceName[t] # serviceName[sid]]_docsVars
  BY <1>1, DocsStepIsRegistryStep
<1> QED BY <1>2, DocsRegistryOK, DocsBelongToEntries, DocsShownByLast, PTL
        DEF SpecDocs, ShownUntilNameTaken

---------------------------------------------------------------------------
(* The merged document.  An item of it stands at the place of a route of a *)
(* healthy entry, which is the route of the same number of its document.   *)
LEMMA ItemOfEntry ==
    ASSUME RegistryOK, EntriesKeepDocs, NEW item \in Merged
    PROVE  LET i == item.place[1]
               n == item.place[2]
               s == item.owner
           IN  /\ i \in 1 .. Len(order) /\ s = order[i] /\ s \in ServiceId
               /\ store[s].status = "ok" /\ rawSpec[s] \in OpenApi
               /\ store[s].routes \in Seq(Route)
               /\ DOMAIN Listing[rawSpec[s]] = 1 .. Len(store[s].routes)
               /\ n \in 1 .. Len(store[s].routes) /\ n \in Listed(rawSpec[s])
               /\ item = [place |-> <<i, n>>, owner |-> s, labels |-> store[s].labels,
                          op |-> Listing[rawSpec[s]][n]]
               /\ item.op \in Range(Listing[rawSpec[s]])
               /\ item.op.route = store[s].routes[n] /\ item.op.route \in Route
<1>1. PICK i \in ServiceSpecs : item \in Items(i)
  BY DEF Merged
<1>2. PICK n \in Listed(rawSpec[order[i]]) :
         item = [place |-> <<i, n>>, owner |-> order[i], labels |-> store[order[i]].labels,
                 op |-> Listing[rawSpec[order[i]]][n]]
  BY <1>1 DEF Items
<1>0. n \in DOMAIN Listing[rawSpec[order[i]]]
  BY DEF Listed
<1> DEFINE s == order[i]
<1>3. order \in Seq(ServiceId) /\ i \in 1 .. Len(order)
  BY LenProperties DEF RegistryOK, TypeOKRegistry, ServiceSpecs
<1>4. s \in ServiceId /\ store[s].status = "ok" /\ rawSpec[s] \in OpenApi
  BY <1>3, ElementOfSeq DEF ServiceSpecs, Healthy, EntriesKeepDocs
<1>5. store[s].routes = Extracted(rawSpec[s]) /\ store[s].routes \in Seq(Route)
  BY <1>4, ExtractedAssumption, RouteListAssumption, OpenApiAssumption DEF EntriesKeepDocs
<1>6. DOMAIN Listing[rawSpec[s]] = 1 .. Len(store[s].routes)
  BY <1>5, LenProperties DEF Extracted
<1>7. item.op.route = store[s].routes[n]
  BY <1>0, <1>2, <1>5 DEF Extracted
<1>8. item.op.route \in Route
  BY <1>0, <1>2, <1>5, <1>6, <1>7, ElementOfSeq
<1> QED BY <1>0, <1>2, <1>3, <1>4, <1>5, <1>6, <1>7, <1>8 DEF Range, Listed

(* And every route that is listed has its item.                            *)
LEMMA EntryHasItem ==
    ASSUME RegistryOK, EntriesKeepDocs, NEW sid \in ServiceId, rawSpec[sid] # None,
           NEW n \in Listed(rawSpec[sid])
    PROVE  \E item \in Merged : /\ item.owner = sid
                                /\ item.labels = store[sid].labels
                                /\ item.op = Listing[rawSpec[sid]][n]
<1>1. store[sid].status = "ok"
  BY DEF EntriesKeepDocs
<1>2. PICK i \in DOMAIN order : order[i] = sid
  BY <1>1 DEF RegistryOK, OrderOK, Registered, Range
<1> DEFINE item == [place |-> <<i, n>>, owner |-> sid, labels |-> store[sid].labels,
                    op |-> Listing[rawSpec[sid]][n]]
<1>3. item \in Items(i)
  BY <1>2 DEF Items
<1>4. i \in ServiceSpecs
  BY <1>1, <1>2 DEF ServiceSpecs, Healthy
<1>5. item \in Merged
  BY <1>3, <1>4 DEF Merged
<1> QED BY <1>5

(* Items are the more recent the later they are merged: any set of them    *)
(* has a last one,                                                         *)
LEMMA LatestItem ==
    ASSUME RegistryOK, EntriesKeepDocs, NEW S \in SUBSET Merged, S # {}
    PROVE  \E last \in S : ~ \E item \in S : Before(last, item)
<1> DEFINE T == {item.place[1] : item \in S}
<1>1. Len(order) \in Nat /\ T \in SUBSET (1 .. Len(order)) /\ T # {}
  BY ItemOfEntry, LenProperties DEF RegistryOK, TypeOKRegistry
<1>2. PICK i \in T : \A k \in T : k <= i
  <2> HIDE DEF T
  <2> QED BY <1>1, MaxProperty
<1> DEFINE U == {item.place[2] : item \in {x \in S : x.place[1] = i}}
           N == Len(store[order[i]].routes)
<1>3. U # {}
  OBVIOUS
<1>4. N \in Nat /\ U \in SUBSET (1 .. N)
  <2>1. \A item \in S : item.place[1] = i =>
            store[order[i]].routes \in Seq(Route) /\ item.place[2] \in 1 .. N
    BY ItemOfEntry
  <2>2. store[order[i]].routes \in Seq(Route)
    BY <1>3, <2>1
  <2> QED BY <2>1, <2>2, LenProperties
<1>5. PICK n \in U : \A k \in U : k <= n
  <2> HIDE DEF U, N
  <2> QED BY <1>3, <1>4, MaxProperty
<1>6. PICK last \in S : last.place[1] = i /\ last.place[2] = n
  BY <1>5
<1>7. ASSUME NEW item \in S, Before(last, item) PROVE FALSE
  <2>1. /\ item.place[1] \in 1 .. Len(order) /\ i \in 1 .. Len(order)
        /\ item.place[1] <= i
    BY <1>1, <1>2
  <2>2. item.place[1] = i /\ n < item.place[2]
    BY <1>1, <1>6, <1>7, <2>1 DEF Before
  <2>3. item.place[2] \in U
    BY <2>2
  <2>4. item.place[2] <= n /\ item.place[2] \in 1 .. N /\ n \in 1 .. N
    BY <1>4, <1>5, <2>3
  <2> QED BY <1>4, <2>2, <2>4
<1> QED BY <1>7

(* and a first one.                                                        *)
LEMMA EarliestItem ==
    ASSUME RegistryOK, EntriesKeepDocs, NEW S \in SUBSET Merged, S # {}
    PROVE  \E first \in S : ~ \E item \in S : Before(item, first)
<1> DEFINE T == {item.place[1] : item \in S}
<1>1. T \in SUBSET Nat /\ T # {}
  BY ItemOfEntry, LenProperties DEF RegistryOK, TypeOKRegistry
<1>2. PICK i \in T : \A k \in T : i <= k
  <2> HIDE DEF T
  <2> QED BY <1>1, LeastNatural
<1> DEFINE U == {item.place[2] : item \in {x \in S : x.place[1] = i}}
<1>3. U \in SUBSET Nat /\ U # {}
  <2>1. ASSUME NEW item \in S PROVE item.place[2] \in Nat
    BY ItemOfEntry, LenProperties
  <2> QED BY <2>1
<1>4. PICK n \in U : \A k \in U : n <= k
  <2> HIDE DEF U
  <2> QED BY <1>3, LeastNatural
<1>5. PICK first \in S : first.place[1] = i /\ first.place[2] = n
  BY <1>4
<1>6. ASSUME NEW item \in S, Before(item, first) PROVE FALSE
  <2>1. item.place[1] \in Nat /\ i \in Nat /\ i <= item.place[1]
    BY <1>1, <1>2
  <2>2. item.place[1] = i /\ item.place[2] < n
    BY <1>5, <1>6, <2>1 DEF Before
  <2>3. item.place[2] \in U
    BY <2>2
  <2>4. n <= item.place[2] /\ item.place[2] \in Nat /\ n \in Nat
    BY <1>3, <1>4, <2>3
  <2> QED BY <2>2, <2>4
<1> QED BY <1>6

(* What is proved of the registry and of the documents, in every state.    *)
LEMMA DocsSingleOwner == SpecDocs => []SingleOwner
BY DocsImplementRegistry, SingleOwnership, PTL

(* The merged document lists of the routes of the healthy entries those    *)
(* whose key is in lower case, and nothing else.                           *)
THEOREM DocsMatchRoutes == SpecDocs => []DocsOK
<1>1. RegistryOK /\ EntriesKeepDocs => DocsOK
  <2> SUFFICES ASSUME RegistryOK, EntriesKeepDocs PROVE DocsOK
    OBVIOUS
  <2>1. ASSUME NEW item \in Merged PROVE item.op.route \in AllRoutes
    <3> DEFINE s == item.owner
    <3>1. /\ s \in ServiceId /\ store[s].status = "ok"
          /\ store[s].routes \in Seq(Route) /\ item.place[2] \in 1 .. Len(store[s].routes)
          /\ item.op.route = store[s].routes[item.place[2]]
      BY ItemOfEntry
    <3>2. s \in Range(order)
      BY <3>1 DEF RegistryOK, OrderOK, Registered
    <3>3. item.op.route \in Range(store[s].routes)
      BY <3>1, LenProperties DEF Range
    <3> QED BY <3>2, <3>3 DEF AllRoutes
  <2>2. ASSUME NEW sid \in ServiceId, NEW n \in DOMAIN store[sid].routes,
               n \in Listed(rawSpec[sid])
        PROVE  \E item \in Merged : item.owner = sid /\ item.op = Listing[rawSpec[sid]][n]
    <3>1. rawSpec[sid] # None
      BY <2>2 DEF RegistryOK, ErrorsExposeNothing, EntriesKeepDocs
    <3> QED BY <2>2, <3>1, EntryHasItem
  <2>3. ASSUME NEW sid \in ServiceId, NEW n \in DOMAIN store[sid].routes,
               NEW item \in Merged, item.owner = sid, item.op = Listing[rawSpec[sid]][n]
        PROVE  n \in Listed(rawSpec[sid])
    <3>1. item.op.listed
      BY ItemOfEntry DEF Listed
    <3>2. rawSpec[sid] # None /\ store[sid].routes = Extracted(rawSpec[sid])
      BY <2>3, ItemOfEntry, OpenApiAssumption DEF EntriesKeepDocs
    <3>3. n \in DOMAIN Listing[rawSpec[sid]]
      BY <3>2 DEF Extracted
    <3> QED BY <2>3, <3>1, <3>3 DEF Listed
  <2>4. {item.op.route : item \in Merged} \subseteq AllRoutes
    BY <2>1
  <2> QED BY <2>2, <2>3, <2>4 DEF DocsOK
<1> QED BY <1>1, DocsRegistryOK, DocsBelongToEntries, PTL

(* A request that one pattern only matches is answered by the owner of any *)
(* item that matches it, with a route of that item's key.                  *)
LEMMA ItemAnswers ==
    ASSUME RegistryOK, SingleOwner, EntriesKeepDocs, NEW m, NEW p, Unambiguous(p),
           NEW item \in Merged, item.op.route.method = m, p \in Matches[item.op.route.exposed]
    PROVE  /\ Resolve(m, p).owner = item.owner
           /\ Resolve(m, p).labels = item.labels
<1> DEFINE s == item.owner
           n == item.place[2]
<1>1. /\ s \in ServiceId /\ store[s].status = "ok"
      /\ store[s].routes \in Seq(Route) /\ n \in 1 .. Len(store[s].routes)
      /\ item.labels = store[s].labels
      /\ item.op.route = store[s].routes[n]
  BY ItemOfEntry
<1>2. n \in Hits(s, m, p)
  BY <1>1, LenProperties DEF Hits
<1>3. Resolve(m, p) = [owner |-> s, route |-> store[s].routes[Min(Hits(s, m, p))],
                       labels |-> store[s].labels]
  BY <1>1, <1>2, OnlyOwnerAnswers
<1> QED BY <1>1, <1>3

(* Items of one method that are shown at one path are of one service, with *)
(* one documented path.                                                    *)
LEMMA SameShownSameRoute ==
    ASSUME RegistryOK, SingleOwner, EntriesKeepDocs, NEW a \in Merged, NEW b \in Merged,
           a.op.shown = b.op.shown, a.op.route.method = b.op.route.method
    PROVE  a.op.route = b.op.route
<1>1. /\ a.op.route \in Route /\ b.op.route \in Route
      /\ a.owner \in ServiceId /\ b.owner \in ServiceId
      /\ rawSpec[a.owner] \in OpenApi /\ rawSpec[b.owner] \in OpenApi
      /\ a.op \in Range(Listing[rawSpec[a.owner]])
      /\ b.op \in Range(Listing[rawSpec[b.owner]])
      /\ store[a.owner].status = "ok" /\ store[b.owner].status = "ok"
  BY ItemOfEntry
<1>2. a.op.route.exposed = b.op.route.exposed
  BY <1>1, ShownAssumption
<1>3. ASSUME NEW item \in Merged
      PROVE  KeyOf(item.op.route) \in Keys(store[item.owner].routes)
  <2>1. /\ store[item.owner].routes \in Seq(Route)
        /\ item.place[2] \in 1 .. Len(store[item.owner].routes)
        /\ item.op.route = store[item.owner].routes[item.place[2]]
    BY ItemOfEntry
  <2> QED BY <2>1, LenProperties DEF Keys, Range
<1>4. KeyOf(a.op.route) = KeyOf(b.op.route)
  BY <1>2 DEF KeyOf
<1>5. a.owner = b.owner
  BY <1>1, <1>3, <1>4 DEF SingleOwner
<1>6. a.op.route.path = b.op.route.path
  BY <1>1, <1>5, ShownAssumption
<1> QED BY <1>1, <1>2, <1>6 DEF Route

(* What overwrites an operation has its path and method, and so its route. *)
LEMMA KeptOperation ==
    ASSUME RegistryOK, SingleOwner, EntriesKeepDocs, NEW item \in Merged
    PROVE  \E kept \in Operations : kept.op.route = item.op.route
<1> DEFINE S == {other \in ItemsAt(item.op.shown) : other.op.route.method = item.op.route.method}
<1>1. S \in SUBSET Merged /\ item \in S
  BY DEF ItemsAt
<1>2. PICK last \in S : ~ \E other \in S : Before(last, other)
  <2> HIDE DEF S
  <2> QED BY <1>1, LatestItem
<1>3. /\ last \in Merged /\ last.op.shown = item.op.shown
      /\ last.op.route.method = item.op.route.method
  BY <1>1, <1>2 DEF ItemsAt
<1>4. last \in Operations
  BY <1>2, <1>3 DEF Operations
<1> QED BY <1>3, <1>4, SameShownSameRoute

(* What the document says of a request that one pattern only matches is    *)
(* what happens to it: all that is documented for it is of the service     *)
(* that answers, the route that answers is documented if it is listed, and *)
(* with the demands that are made of it.                                   *)
THEOREM DocumentTellsTheTruth == SpecDocs => []ServedAsDocumented
<1>1. RegistryOK /\ SingleOwner /\ EntriesKeepDocs => ServedAsDocumented
  <2> SUFFICES ASSUME RegistryOK, SingleOwner, EntriesKeepDocs,
                      NEW m \in Method, NEW p \in Path, Unambiguous(p)
               PROVE  LET answer    == Resolve(m, p)
                          documents == Documents(m, p)
                      IN  /\ \A item \in documents : item.owner = answer.owner
                          /\ answer # Unresolved /\ ListsRoute(answer.owner, answer.route) =>
                                \E item \in documents : item.op.route = answer.route
                          /\ \A item \in documents :
                                item.op.route = answer.route =>
                                    AsksFor(item, answer.labels, answer.route)
    BY DEF ServedAsDocumented
  <2> DEFINE answer == Resolve(m, p)
  <2>1. ASSUME NEW item \in Documents(m, p)
        PROVE  item.owner = answer.owner /\ item.labels = answer.labels
    <3>1. item \in Merged /\ item.op.route.method = m /\ p \in Matches[item.op.route.exposed]
      BY DEF Documents, Operations
    <3> QED BY <3>1, ItemAnswers
  <2>2. ASSUME answer # Unresolved, ListsRoute(answer.owner, answer.route)
        PROVE  \E item \in Documents(m, p) : item.op.route = answer.route
    <3>1. Answering(m, p) # {}
      BY <2>2 DEF Resolve
    <3>2. PICK s \in ServiceId :
             /\ store[s].status = "ok" /\ answer.owner = s
             /\ answer.route.method = m /\ p \in Matches[answer.route.exposed]
      <4>1. PICK s \in ServiceId : \E i \in Hits(s, m, p) :
               /\ store[s].status = "ok"
               /\ Resolve(m, p) = [owner |-> s, route |-> store[s].routes[i],
                                   labels |-> store[s].labels]
        BY <3>1, ResolveFinds DEF Answering
      <4> QED BY <4>1 DEF Hits
    <3>3. rawSpec[s] # None
      BY <3>2 DEF EntriesKeepDocs
    <3>4. PICK n \in Listed(rawSpec[s]) : Listing[rawSpec[s]][n].route = answer.route
      BY <2>2, <3>2 DEF ListsRoute
    <3>5. PICK item \in Merged : item.op.route = answer.route
      BY <3>3, <3>4, EntryHasItem
    <3>6. PICK kept \in Operations : kept.op.route = answer.route
      BY <3>5, KeptOperation
    <3> QED BY <3>2, <3>6 DEF Documents
  <2>3. ASSUME NEW item \in Documents(m, p), item.op.route = answer.route
        PROVE  AsksFor(item, answer.labels, answer.route)
    <3>1. item.labels = answer.labels
      BY <2>1
    <3>2. AuthRequired \/ ApiKeyRequired =>
             Security(item) = [bearerAuth |-> answer.route \in NeedsToken[answer.labels],
                               apiKeyAuth |-> ApiKeyRequired /\ answer.labels \in NeedsApiKey]
      BY <2>3, <3>1 DEF Security
    <3> QED BY <3>2 DEF AsksFor
  <2> QED BY <2>1, <2>2, <2>3
<1> QED BY <1>1, DocsRegistryOK, DocsSingleOwner, DocsBelongToEntries, PTL

(* The fields of a path item are those of its service's document, for a    *)
(* path that only one service exposes.                                     *)
THEOREM PathFieldsAreTheOwners == SpecDocs => []PathFieldsKept
<1>1. RegistryOK /\ EntriesKeepDocs => PathFieldsKept
  <2> SUFFICES ASSUME RegistryOK, EntriesKeepDocs, NEW item \in Operations,
                      {other.owner : other \in ItemsAt(item.op.shown)} = {item.owner}
               PROVE  PathFields(item.op.shown) = item.op.fields
    BY DEF PathFieldsKept
  <2> DEFINE S == ItemsAt(item.op.shown)
             first == CHOOSE x \in S : ~ \E earlier \in S : Before(earlier, x)
  <2>1. item \in Merged /\ item \in S /\ S \in SUBSET Merged
    BY DEF Operations, ItemsAt
  <2>2. first \in S
    <3>1. \E x \in S : ~ \E earlier \in S : Before(earlier, x)
      <4> HIDE DEF S
      <4> QED BY <2>1, EarliestItem
    <3> QED BY <3>1
  <2>3. first \in Merged /\ first.op.shown = item.op.shown /\ first.owner = item.owner
    <3> HIDE DEF first
    <3> QED BY <2>2 DEF ItemsAt
  <2>4. PathFields(item.op.shown) = first.op.fields
    BY DEF PathFields
  <2> HIDE DEF first
  <2>5. first.op.fields = item.op.fields
    <3>1. /\ rawSpec[item.owner] \in OpenApi
          /\ item.op \in Range(Listing[rawSpec[item.owner]])
      BY <2>1, ItemOfEntry
    <3>2. first.op \in Range(Listing[rawSpec[item.owner]])
      BY <2>3, ItemOfEntry
    <3> QED BY <2>3, <3>1, <3>2, ShownAssumption
  <2> QED BY <2>4, <2>5
<1> QED BY <1>1, DocsRegistryOK, DocsBelongToEntries, PTL
================================================================================
