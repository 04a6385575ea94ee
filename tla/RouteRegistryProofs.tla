-------------------------- MODULE RouteRegistryProofs --------------------------
(***************************************************************************)
(* Proofs about the route registry, for every set of services, methods,    *)
(* patterns and label sets, and every set of route lists.                  *)
(***************************************************************************)
EXTENDS RouteRegistry, SequenceLemmas

(* Assigning to a key of the dictionary and popping one keep `store' and   *)
(* `order' in agreement.                                                   *)
LEMMA PutPreservesRegistryOK ==
    ASSUME RegistryOK, NEW sid \in ServiceId, NEW entry \in Entry,
           entry.status # "absent", entry.status # "ok" => entry.routes = <<>>,
           Put(sid, entry)
    PROVE  RegistryOK'
<1>1. store' \in [ServiceId -> Entry] /\ store' = [store EXCEPT ![sid] = entry]
  BY DEF RegistryOK, TypeOKRegistry, Put
<1>2. \A s \in ServiceId : Registered(s)' <=> Registered(s) \/ s = sid
  BY <1>1 DEF RegistryOK, TypeOKRegistry, Registered
<1>3. /\ order' \in Seq(ServiceId)
      /\ IsInjective(order')
      /\ Range(order') = Range(order) \cup {sid}
  <2>1. CASE Registered(sid)
    BY <2>1 DEF RegistryOK, TypeOKRegistry, OrderOK, Put
  <2>2. CASE ~Registered(sid)
    <3>1. sid \notin Range(order) /\ order' = Append(order, sid)
      BY <2>2 DEF RegistryOK, OrderOK, Put
    <3> QED BY <3>1, AppendNewElement DEF RegistryOK, TypeOKRegistry, OrderOK
  <2> QED BY <2>1, <2>2
<1>4. OrderOK'
  BY <1>2, <1>3 DEF RegistryOK, OrderOK
<1>5. ErrorsExposeNothing'
  BY <1>1 DEF RegistryOK, TypeOKRegistry, ErrorsExposeNothing
<1> QED BY <1>1, <1>3, <1>4, <1>5 DEF RegistryOK, TypeOKRegistry

(* Deregistration keeps the registry well-formed,                          *)
LEMMA DeregisterPreservesRegistryOK ==
    ASSUME RegistryOK, NEW sid \in ServiceId, Deregister(sid)
    PROVE  RegistryOK'
<1>1. CASE ~Registered(sid)
  BY <1>1 DEF Deregister, registryVars, RegistryOK, TypeOKRegistry, OrderOK,
              ErrorsExposeNothing, Registered
<1>2. CASE Registered(sid)
  <2>1. /\ store' = [store EXCEPT ![sid] = NoEntry]
        /\ order' = RemoveFirst(order, sid)
    BY <1>2 DEF Deregister, Pop
  <2>2. store' \in [ServiceId -> Entry]
    BY <2>1 DEF RegistryOK, TypeOKRegistry, Entry, NoEntry, Status
  <2>3. \A s \in ServiceId : Registered(s)' <=> Registered(s) /\ s # sid
    BY <2>1 DEF RegistryOK, TypeOKRegistry, Registered, NoEntry
  <2>4. /\ order' \in Seq(ServiceId)
        /\ IsInjective(order')
        /\ Range(order') = Range(order) \ {sid}
    <3>1. sid \in Range(order)
      BY <1>2 DEF RegistryOK, OrderOK
    <3> QED BY <2>1, <3>1, RemoveFirstProperties DEF RegistryOK, TypeOKRegistry, OrderOK
  <2>5. OrderOK'
    BY <2>3, <2>4 DEF RegistryOK, OrderOK
  <2>6. ErrorsExposeNothing'
    BY <2>1 DEF RegistryOK, TypeOKRegistry, ErrorsExposeNothing, NoEntry
  <2> QED BY <2>2, <2>4, <2>5, <2>6 DEF RegistryOK, TypeOKRegistry
<1> QED BY <1>1, <1>2

---------------------------------------------------------------------------
(* The effect of each operation on the store, as one assignment.           *)
LEMMA HealthyEntryIsEntry ==
    ASSUME NEW routes \in RouteList, NEW labels \in Labels
    PROVE  HealthyEntry(routes, labels) \in Entry
BY DEF HealthyEntry, Entry, Status

(* an error entry is an entry,                                             *)
LEMMA ErrorEntryIsEntry ==
    ASSUME NEW reason \in {"filter_conflict", "path_conflict"}, NEW labels \in Labels
    PROVE  ErrorEntry(reason, labels) \in Entry
BY DEF ErrorEntry, Entry, Status

(* A registration preserves the structure of the registry.                 *)
LEMMA RegisterPreservesRegistryOK ==
    ASSUME RegistryOK, NEW sid \in ServiceId, NEW routes \in RouteList,
           NEW labels \in Labels, Register(sid, routes, labels)
    PROVE  RegistryOK'
<1>1. CASE RegisterHealthy(sid, routes, labels)
  BY <1>1, HealthyEntryIsEntry, PutPreservesRegistryOK DEF RegisterHealthy, HealthyEntry
<1>2. CASE RegisterBlocked(sid, routes, labels)
  BY <1>2, ErrorEntryIsEntry, PutPreservesRegistryOK DEF RegisterBlocked, ErrorEntry
<1> QED BY <1>1, <1>2 DEF Register

(* and to register one keeps the registry well-formed.                     *)
LEMMA RegisterErrorPreservesRegistryOK ==
    ASSUME RegistryOK, NEW sid \in ServiceId, NEW labels \in Labels,
           RegisterError(sid, labels)
    PROVE  RegistryOK'
BY ErrorEntryIsEntry, PutPreservesRegistryOK DEF RegisterError, ErrorEntry

(* The keys of a list of routes are keys.                                  *)
LEMMA KeysAreKeys ==
    ASSUME NEW routes \in Seq(Route)
    PROVE  Keys(routes) \in SUBSET Key
<1>1. \A route \in Range(routes) : route \in Route
  BY RangeOfSeq
<1>2. \A route \in Route : KeyOf(route) \in Key
  BY DEF KeyOf, Route, Key
<1> QED BY <1>1, <1>2 DEF Keys

(* The empty registry is well-formed.                                      *)
LEMMA InitRegistryOK == InitRegistry => RegistryOK
<1> SUFFICES ASSUME InitRegistry PROVE RegistryOK
  OBVIOUS
<1>1. TypeOKRegistry
  BY EmptySeq DEF InitRegistry, TypeOKRegistry, Entry, NoEntry, Status
<1>2. OrderOK
  BY DEF InitRegistry, OrderOK, NoEntry, Registered, Range, IsInjective
<1>3. ErrorsExposeNothing
  BY DEF InitRegistry, NoEntry, ErrorsExposeNothing
<1> QED BY <1>1, <1>2, <1>3 DEF RegistryOK

(* The structure of the dictionary is kept by every call,                  *)
LEMMA RegistryStepKeepsRegistryOK ==
    ASSUME RegistryOK, [NextRegistry]_registryVars
    PROVE  RegistryOK'
<1>1. CASE UNCHANGED registryVars
  BY <1>1 DEF registryVars, RegistryOK, TypeOKRegistry, OrderOK, ErrorsExposeNothing,
              Registered
<1>2. ASSUME NEW sid \in ServiceId, NEW routes \in RouteList, NEW labels \in Labels,
             Register(sid, routes, labels)
      PROVE  RegistryOK'
  BY <1>2, RegisterPreservesRegistryOK
<1>3. ASSUME NEW sid \in ServiceId, NEW labels \in Labels, RegisterError(sid, labels)
      PROVE  RegistryOK'
  BY <1>3, RegisterErrorPreservesRegistryOK
<1>4. ASSUME NEW sid \in ServiceId, Deregister(sid)
      PROVE  RegistryOK'
  BY <1>4, DeregisterPreservesRegistryOK
<1> QED BY <1>1, <1>2, <1>3, <1>4 DEF NextRegistry

(* so entries are well formed, the search order lists each registered id   *)
(* exactly once, and an error entry exposes nothing, in every state.       *)
THEOREM RegistryStructure == SpecRegistry => []RegistryOK
<1>1. RegistryOK /\ [NextRegistry]_registryVars => RegistryOK'
  BY RegistryStepKeepsRegistryOK
<1> QED BY <1>1, InitRegistryOK, PTL DEF SpecRegistry

---------------------------------------------------------------------------
(* Ownership.  Whatever entry an id receives, the others keep theirs; so   *)
(* only an entry whose keys are taken could break single ownership, and    *)
(* register() checks exactly that.                                         *)
LEMMA AssignPreservesSingleOwner ==
    ASSUME RegistryOK, SingleOwner, NEW sid \in ServiceId, NEW entry,
           store' = [store EXCEPT ![sid] = entry],
           entry.status = "ok" => Keys(entry.routes) \cap Taken(sid) = {}
    PROVE  SingleOwner'
<1>1. store \in [ServiceId -> Entry]
  BY DEF RegistryOK, TypeOKRegistry
<1>2. ASSUME NEW t \in ServiceId \ {sid}, store[t].status = "ok"
      PROVE  Keys(store[t].routes) \subseteq Taken(sid)
  BY <1>2 DEF Taken
<1>3. SUFFICES ASSUME NEW s \in ServiceId, NEW t \in ServiceId, s # t,
                      store'[s].status = "ok", store'[t].status = "ok"
               PROVE  Keys(store'[s].routes) \cap Keys(store'[t].routes) = {}
  BY DEF SingleOwner, Keys
<1>4. CASE s = sid
  BY <1>1, <1>2, <1>3, <1>4
<1>5. CASE t = sid
  BY <1>1, <1>2, <1>3, <1>5
<1>6. CASE s # sid /\ t # sid
  BY <1>1, <1>3, <1>6 DEF SingleOwner
<1> QED BY <1>4, <1>5, <1>6

(* No operation of the registry makes two healthy services share a route.  *)
LEMMA RegistryStepKeepsSingleOwner ==
    ASSUME RegistryOK, SingleOwner, [NextRegistry]_registryVars
    PROVE  SingleOwner'
<1>1. CASE UNCHANGED registryVars
  BY <1>1 DEF registryVars, SingleOwner, Keys
<1>2. ASSUME NEW sid \in ServiceId, NEW routes \in RouteList, NEW labels \in Labels,
             RegisterHealthy(sid, routes, labels)
      PROVE  SingleOwner'
  BY <1>2, AssignPreservesSingleOwner DEF RegisterHealthy, Put, HealthyEntry, Conflicts
<1>3. ASSUME NEW sid \in ServiceId, NEW reason, reason # "ok", NEW labels,
             Put(sid, ErrorEntry(reason, labels))
      PROVE  SingleOwner'
  BY <1>3, AssignPreservesSingleOwner DEF Put, ErrorEntry
<1>4. ASSUME NEW sid \in ServiceId, Deregister(sid)
      PROVE  SingleOwner'
  <2>1. CASE Registered(sid)
    BY <1>4, <2>1, AssignPreservesSingleOwner DEF Deregister, Pop, NoEntry
  <2>2. CASE ~Registered(sid)
    BY <1>4, <2>2 DEF Deregister, registryVars, SingleOwner, Keys
  <2> QED BY <2>1, <2>2
<1> QED BY <1>1, <1>2, <1>3, <1>4
        DEF NextRegistry, Register, RegisterBlocked, RegisterError

(* In the empty registry no two services share a route.                    *)
LEMMA InitSingleOwner == InitRegistry => SingleOwner
BY DEF InitRegistry, NoEntry, SingleOwner

(* No two healthy services ever expose the same method and exposed path.   *)
THEOREM SingleOwnership == SpecRegistry => []SingleOwner
<1>1. RegistryOK /\ SingleOwner /\ [NextRegistry]_registryVars => SingleOwner'
  BY RegistryStepKeepsSingleOwner
<1> QED BY <1>1, InitSingleOwner, RegistryStructure, PTL DEF SpecRegistry

---------------------------------------------------------------------------
(* Refinement.  With single ownership, the owner of a key is the service   *)
(* that exposes it and no CHOOSE is left.                                  *)
LEMMA OwnerExposes ==
    ASSUME SingleOwner, NEW sid \in ServiceId, NEW k
    PROVE  Owner(k) = sid <=> Exposes(sid, k)
<1>1. ASSUME Exposes(sid, k) PROVE Owner(k) = sid
  <2>1. \A t \in ServiceId : Exposes(t, k) => t = sid
    BY <1>1 DEF SingleOwner, Exposes
  <2>2. (CHOOSE t \in ServiceId : Exposes(t, k)) = sid
    BY <1>1, <2>1
  <2> QED BY <1>1, <2>2 DEF Owner
<1>2. ASSUME Owner(k) = sid PROVE Exposes(sid, k)
  BY <1>2, NoneAssumption DEF Owner
<1> QED BY <1>1, <1>2

(* A route without a healthy service has no owner,                         *)
LEMMA OwnerIsNone ==
    ASSUME NEW k, \A sid \in ServiceId : ~Exposes(sid, k)
    PROVE  Owner(k) = None
BY DEF Owner

(* and an owner is a service or None.                                      *)
LEMMA OwnerType == ASSUME NEW k PROVE Owner(k) \in ServiceId \cup {None}
BY DEF Owner

(* What the assignment of one entry does to the table of owners.           *)
LEMMA AssignOwner ==
    ASSUME RegistryOK, SingleOwner, SingleOwner', NEW sid \in ServiceId, NEW entry,
           store' = [store EXCEPT ![sid] = entry], NEW k
    PROVE  /\ entry.status = "ok" /\ k \in Keys(entry.routes) => Owner(k)' = sid
           /\ ~(entry.status = "ok" /\ k \in Keys(entry.routes)) =>
                 Owner(k)' = IF Owner(k) = sid THEN None ELSE Owner(k)
<1>1. \A t \in ServiceId : Owner(k) = t <=> Exposes(t, k)
  BY OwnerExposes
<1>2. \A t \in ServiceId : Owner(k)' = t <=> Exposes(t, k)'
  <2>1. ASSUME NEW t \in ServiceId, Exposes(t, k)' PROVE Owner(k)' = t
    <3>1. \A u \in ServiceId : Exposes(u, k)' => u = t
      BY <2>1 DEF SingleOwner, Exposes
    <3>2. (CHOOSE u \in ServiceId : Exposes(u, k)') = t
      BY <2>1, <3>1
    <3> QED BY <2>1, <3>2 DEF Owner
  <2>2. ASSUME NEW t \in ServiceId, Owner(k)' = t PROVE Exposes(t, k)'
    BY <2>2, NoneAssumption DEF Owner
  <2> QED BY <2>1, <2>2
<1>3. Owner(k) \in ServiceId \cup {None} /\ Owner(k)' \in ServiceId \cup {None}
  BY OwnerType DEF Owner
<1>4. Exposes(sid, k)' <=> entry.status = "ok" /\ k \in Keys(entry.routes)
  BY DEF RegistryOK, TypeOKRegistry, Exposes, Keys
<1>5. \A t \in ServiceId \ {sid} : Exposes(t, k)' <=> Exposes(t, k)
  BY DEF RegistryOK, TypeOKRegistry, Exposes, Keys
<1> QED BY <1>1, <1>2, <1>3, <1>4, <1>5, NoneAssumption

(* Keys that pass between one service and nobody are a step of the table,  *)
(* if the service ends up with the keys of a route list or with none.      *)
LEMMA OwnerChangesAreTableStep ==
    ASSUME NEW sid \in ServiceId, NEW keys \in SUBSET Key,
           keys = {} \/ \E routes \in RouteList : keys = Keys(routes),
           \A k \in Key : Owner(k)' = sid <=> k \in keys,
           \A k \in Key : Owner(k)' # Owner(k) => {Owner(k), Owner(k)'} = {sid, None}
    PROVE  Table!Next
<1>1. \A k \in Key : OwnerTable[k] = Owner(k) /\ OwnerTable'[k] = Owner(k)'
  BY DEF OwnerTable
<1>2. Table!TypeOK'
  <2>1. \A k \in Key : Owner(k)' \in ServiceId \cup {None}
    BY DEF Owner
  <2> QED BY <2>1 DEF Table!TypeOK, OwnerTable
<1>3. Table!Owned(sid)' = keys
  BY <1>1 DEF Table!Owned
<1>4. keys \in {Keys(routes) : routes \in RouteList} \cup {{}}
  OBVIOUS
<1>5. Table!ClaimAndRelease(sid)
  BY <1>1, <1>2, <1>3, <1>4 DEF Table!ClaimAndRelease
<1> QED BY <1>5 DEF Table!Next

(* Each operation of the registry is a step of the ownership table or none.*)
LEMMA RegistryStepImplementsTableStep ==
    ASSUME RegistryOK, SingleOwner, SingleOwner', [NextRegistry]_registryVars
    PROVE  [Table!Next]_OwnerTable
<1>1. CASE UNCHANGED registryVars
  BY <1>1 DEF registryVars, OwnerTable, Owner, Exposes, Keys
<1>2. ASSUME NEW sid \in ServiceId, NEW routes \in RouteList, NEW labels \in Labels,
             RegisterHealthy(sid, routes, labels)
      PROVE  Table!Next
  <2>1. PICK entry : /\ entry.status = "ok"
                     /\ entry.routes = routes
                     /\ store' = [store EXCEPT ![sid] = entry]
    BY <1>2 DEF RegisterHealthy, Put, HealthyEntry
  <2>2. ASSUME NEW k \in Keys(routes) PROVE Owner(k) \in {sid, None}
    <3>1. ASSUME NEW t \in ServiceId \ {sid}, Exposes(t, k) PROVE FALSE
      BY <1>2, <3>1 DEF RegisterHealthy, Conflicts, Taken, Exposes
    <3> QED BY <3>1, OwnerType, OwnerExposes
  <2>3. ASSUME NEW k \in Key, Owner(k)' # Owner(k)
        PROVE  {Owner(k), Owner(k)'} = {sid, None}
    <3>1. CASE k \in Keys(routes)
      BY <2>1, <2>2, <2>3, <3>1, AssignOwner
    <3>2. CASE k \notin Keys(routes)
      BY <2>1, <2>3, <3>2, AssignOwner
    <3> QED BY <3>1, <3>2
  <2>4. Keys(routes) \in SUBSET Key
    BY KeysAreKeys, RouteListAssumption
  <2>5. ASSUME NEW k \in Key PROVE Owner(k)' = sid <=> k \in Keys(routes)
    BY <2>1, NoneAssumption, AssignOwner
  <2> QED BY <2>3, <2>4, <2>5, OwnerChangesAreTableStep
<1>3. ASSUME NEW sid \in ServiceId, NEW entry, entry.status # "ok",
             store' = [store EXCEPT ![sid] = entry]
      PROVE  Table!Next
  <2>1. \A k \in Key : Owner(k)' = IF Owner(k) = sid THEN None ELSE Owner(k)
    BY <1>3, AssignOwner
  <2>2. \A k \in Key : Owner(k)' # sid
    BY <2>1, NoneAssumption
  <2> QED BY <2>1, <2>2, OwnerChangesAreTableStep, {} \in SUBSET Key
<1>4. ASSUME NEW sid \in ServiceId, NEW reason, reason # "ok", NEW labels,
             Put(sid, ErrorEntry(reason, labels))
      PROVE  Table!Next
  BY <1>3, <1>4 DEF Put, ErrorEntry
<1>5. ASSUME NEW sid \in ServiceId, Deregister(sid), Registered(sid)
      PROVE  Table!Next
  BY <1>3, <1>5 DEF Deregister, Pop, NoEntry
<1>6. ASSUME NEW sid \in ServiceId, Deregister(sid), ~Registered(sid)
      PROVE  UNCHANGED registryVars
  BY <1>6 DEF Deregister
<1> QED BY <1>1, <1>2, <1>4, <1>5, <1>6
        DEF NextRegistry, Register, RegisterBlocked, RegisterError

(* The registry is a table of owners: each operation gives one service all *)
(* the keys of a route list or none, touches no key of the others, and no  *)
(* key passes from one healthy service straight to another.                *)
THEOREM RegistryImplementsOwnershipTable == SpecRegistry => ImplementsOwnershipTable
<1>1. InitRegistry => Table!Init
  BY OwnerIsNone DEF InitRegistry, NoEntry, Exposes, Table!Init, OwnerTable
<1>2. RegistryOK /\ SingleOwner /\ SingleOwner' /\ [NextRegistry]_registryVars
         => [Table!Next]_OwnerTable
  BY RegistryStepImplementsTableStep
<1> QED BY <1>1, <1>2, RegistryStructure, SingleOwnership, PTL
        DEF SpecRegistry, ImplementsOwnershipTable, Table!Spec

---------------------------------------------------------------------------
(* Resolution.                                                             *)
(* What a request resolves to, if anything, is the first route that hits   *)
(* of the first healthy entry with one.                                    *)
LEMMA ResolveFinds ==
    ASSUME RegistryOK, NEW m, NEW p, Answering(m, p) # {}
    PROVE  LET n == Min(Answering(m, p))
               s == order[n]
               i == Min(Hits(s, m, p))
           IN  /\ n \in Answering(m, p) /\ \A k \in Answering(m, p) : n <= k
               /\ n \in 1 .. Len(order) /\ s \in ServiceId
               /\ i \in Hits(s, m, p)
               /\ Resolve(m, p) = [owner |-> s, route |-> store[s].routes[i],
                                   labels |-> store[s].labels]
<1> DEFINE n == Min(Answering(m, p))
           s == order[n]
<1>1. order \in Seq(ServiceId)
  BY DEF RegistryOK, TypeOKRegistry
<1>2. DOMAIN order = 1 .. Len(order) /\ Len(order) \in Nat
  BY <1>1, LenProperties
<1>3. Answering(m, p) \in SUBSET Nat
  BY <1>2 DEF Answering
<1>4. n \in Answering(m, p) /\ \A k \in Answering(m, p) : n <= k
  BY <1>3, MinProperty
<1>5. n \in 1 .. Len(order) /\ Hits(s, m, p) # {}
  BY <1>2, <1>4 DEF Answering
<1>6. s \in ServiceId
  BY <1>1, <1>5, ElementOfSeq
<1>7. Hits(s, m, p) \in SUBSET Nat
  <2>1. store[s].routes \in Seq(Route)
    BY <1>6, RouteListAssumption, EmptySeq DEF RegistryOK, TypeOKRegistry, Entry
  <2> QED BY <2>1, LenProperties DEF Hits
<1>8. Min(Hits(s, m, p)) \in Hits(s, m, p)
  BY <1>5, <1>7, MinProperty
<1> QED BY <1>4, <1>5, <1>6, <1>8 DEF Resolve

(* A request is routed by an entry of the registry.                        *)
LEMMA ResolveType ==
    ASSUME RegistryOK, NEW m, NEW p
    PROVE  Resolve(m, p) \in [owner  : ServiceId \cup {None},
                              route  : Route \cup {<<>>},
                              labels : Labels \cup {None}]
<1>1. CASE Answering(m, p) = {}
  BY <1>1 DEF Resolve, Unresolved
<1>2. CASE Answering(m, p) # {}
  <2>1. PICK s \in ServiceId : \E i \in Hits(s, m, p) :
            Resolve(m, p) = [owner |-> s, route |-> store[s].routes[i], labels |-> store[s].labels]
    BY <1>2, ResolveFinds
  <2>2. store[s].routes \in Seq(Route) /\ store[s].labels \in Labels \cup {None}
    BY RouteListAssumption, EmptySeq DEF RegistryOK, TypeOKRegistry, Entry
  <2>3. \A i \in Hits(s, m, p) : store[s].routes[i] \in Route
    BY <2>2, ElementOfSeq, LenProperties DEF Hits
  <2> QED BY <2>1, <2>2, <2>3
<1> QED BY <1>1, <1>2

(* Only the registration of an id that is new makes it a registered one,   *)
(* and it is listed last.                                                  *)
LEMMA NewcomerIsAppended ==
    ASSUME RegistryOK, [NextRegistry]_registryVars,
           NEW sid \in ServiceId, ~Registered(sid), Registered(sid)'
    PROVE  /\ order' = Append(order, sid)
           /\ \A s \in ServiceId \ {sid} : store'[s] = store[s]
<1>1. store \in [ServiceId -> Entry]
  BY DEF RegistryOK, TypeOKRegistry
<1>2. ASSUME NEW t \in ServiceId, NEW entry, Put(t, entry)
      PROVE  /\ order' = Append(order, sid)
             /\ \A s \in ServiceId \ {sid} : store'[s] = store[s]
  <2>1. \A s \in ServiceId \ {t} : store'[s] = store[s]
    BY <1>1, <1>2 DEF Put
  <2>2. t = sid
    BY <2>1 DEF Registered
  <2> QED BY <1>2, <2>1, <2>2 DEF Put
<1>3. ASSUME NEW t \in ServiceId, Deregister(t) PROVE FALSE
  BY <1>1, <1>3 DEF Deregister, Pop, Registered, NoEntry, registryVars
<1>4. NextRegistry
  BY DEF registryVars, Registered
<1> QED BY <1>2, <1>3, <1>4
        DEF NextRegistry, Register, RegisterHealthy, RegisterBlocked, RegisterError

(* A newcomer is searched last, so it changes no answer, however its globs *)
(* overlap those of the others.                                            *)
LEMMA NewcomerIsSearchedLast ==
    ASSUME RegistryOK, RegistryOK', [NextRegistry]_registryVars, NEW m, NEW p,
           NEW sid \in ServiceId, ~Registered(sid), Registered(sid)',
           Resolve(m, p) # Unresolved
    PROVE  Resolve(m, p)' = Resolve(m, p)
<1> DEFINE A == Answering(m, p)
           B == Answering(m, p)'
<1>1. order \in Seq(ServiceId) /\ order' \in Seq(ServiceId)
  BY DEF RegistryOK, TypeOKRegistry
<1>2. Len(order) \in Nat /\ DOMAIN order = 1 .. Len(order)
  BY <1>1, LenProperties
<1>3. /\ DOMAIN order' = 1 .. Len(order) + 1
      /\ \A n \in 1 .. Len(order) : order'[n] = order[n]
  BY <1>1, <1>2, NewcomerIsAppended, AppendProperties, LenProperties
<1>4. \A n \in 1 .. Len(order) : order[n] \in ServiceId \ {sid}
  <2>1. \A n \in 1 .. Len(order) : order[n] \in Range(order)
    BY <1>2 DEF Range
  <2> QED BY <2>1 DEF RegistryOK, OrderOK
<1>5. \A n \in 1 .. Len(order) : store'[order'[n]] = store[order[n]]
  BY <1>3, <1>4, NewcomerIsAppended
<1>6. \A n \in 1 .. Len(order) : Hits(order[n], m, p)' = Hits(order[n], m, p)
  BY <1>3, <1>5 DEF Hits
<1>7. /\ A = {n \in 1 .. Len(order) : store[order[n]].status = "ok" /\ Hits(order[n], m, p) # {}}
      /\ A \subseteq B
      /\ \A n \in B : n \in 1 .. Len(order) => n \in A
      /\ B \subseteq 1 .. Len(order) + 1
  BY <1>2, <1>3, <1>5, <1>6 DEF Answering
<1>8. A # {}
  BY DEF Resolve
<1>9. /\ Min(A) \in A /\ \A k \in A : Min(A) <= k
  BY <1>8, ResolveFinds
<1>10. /\ Min(B) \in B /\ \A k \in B : Min(B) <= k
  <2>1. B \in SUBSET Nat /\ B # {}
    BY <1>2, <1>7, <1>8
  <2> HIDE DEF B
  <2> QED BY <2>1, MinProperty
<1>11. Min(B) = Min(A)
  <2>1. Min(A) \in B /\ Min(A) \in 1 .. Len(order)
    BY <1>7, <1>9
  <2>2. Min(B) <= Min(A) /\ Min(B) \in 1 .. Len(order) + 1
    BY <1>7, <1>10, <2>1
  <2>3. Min(B) \in A
    BY <1>2, <1>7, <1>10, <2>1, <2>2
  <2>4. Min(A) <= Min(B)
    BY <1>9, <2>3
  <2> QED BY <1>2, <2>1, <2>2, <2>4
<1>12. Min(A) \in 1 .. Len(order)
  BY <1>7, <1>9
<1> QED BY <1>3, <1>5, <1>6, <1>7, <1>8, <1>11, <1>12 DEF Resolve

(* No newcomer shadows what is already served.                             *)
THEOREM RegistryNoShadowing == SpecRegistry => NewcomerNeverShadows
<1>1. RegistryOK /\ RegistryOK' /\ [NextRegistry]_registryVars =>
         [\A m \in Method, p \in Path :
             \A sid \in ServiceId :
                 /\ ~Registered(sid)
                 /\ Registered(sid)'
                 /\ Resolve(m, p) # Unresolved
                 => Resolve(m, p)' = Resolve(m, p)]_registryVars
  BY NewcomerIsSearchedLast
<1> QED BY <1>1, RegistryStructure, PTL DEF SpecRegistry, NewcomerNeverShadows

(* When one pattern only matches a request, the healthy service that       *)
(* answers it is the only one that could: wherever it is in the order.     *)
LEMMA OnlyOwnerAnswers ==
    ASSUME RegistryOK, SingleOwner, NEW m, NEW p, Unambiguous(p),
           NEW s \in ServiceId, store[s].status = "ok", Hits(s, m, p) # {}
    PROVE  Resolve(m, p) = [owner  |-> s,
                            route  |-> store[s].routes[Min(Hits(s, m, p))],
                            labels |-> store[s].labels]
<1>1. order \in Seq(ServiceId) /\ Range(order) = {t \in ServiceId : Registered(t)}
  BY DEF RegistryOK, TypeOKRegistry, OrderOK
<1>2. PICK n \in DOMAIN order : order[n] = s
  BY <1>1 DEF Range, Registered
<1>3. Answering(m, p) # {}
  BY <1>2 DEF Answering
<1>4. PICK t \in ServiceId :
         /\ store[t].status = "ok"
         /\ Hits(t, m, p) # {}
         /\ Resolve(m, p) = [owner |-> t, route |-> store[t].routes[Min(Hits(t, m, p))],
                             labels |-> store[t].labels]
  BY <1>3, ResolveFinds DEF Answering
<1>5. \A u \in ServiceId : \A i \in Hits(u, m, p) :
          /\ KeyOf(store[u].routes[i]) \in Keys(store[u].routes)
          /\ store[u].routes[i] \in Route
          /\ store[u].routes[i].method = m
          /\ p \in Matches[store[u].routes[i].exposed]
  <2> SUFFICES ASSUME NEW u \in ServiceId, NEW i \in Hits(u, m, p)
               PROVE  /\ KeyOf(store[u].routes[i]) \in Keys(store[u].routes)
                      /\ store[u].routes[i] \in Route
    BY DEF Hits
  <2>1. store[u].routes \in Seq(Route)
    BY RouteListAssumption, EmptySeq DEF RegistryOK, TypeOKRegistry, Entry
  <2> QED BY <2>1, ElementOfSeq, LenProperties DEF Hits, Keys, Range
<1>6. PICK i \in Hits(s, m, p), j \in Hits(t, m, p) : TRUE
  BY <1>4
<1>7. KeyOf(store[s].routes[i]) = KeyOf(store[t].routes[j])
  BY <1>5, <1>6 DEF Unambiguous, Route, KeyOf
<1>8. s = t
  BY <1>4, <1>5, <1>6, <1>7 DEF SingleOwner
<1> QED BY <1>4, <1>8

(* In every state, a request that one pattern only matches is answered by  *)
(* the healthy service that has a route for it.                            *)
OwnerAnswers ==
    \A m \in Method, p \in Path : Unambiguous(p) =>
        \A s \in ServiceId : store[s].status = "ok" /\ Hits(s, m, p) # {} =>
            Resolve(m, p) = [owner  |-> s,
                             route  |-> store[s].routes[Min(Hits(s, m, p))],
                             labels |-> store[s].labels]

(* The owner of a path that is nobody else's answers it.                   *)
LEMMA RegistryOwnerAnswers == SpecRegistry => []OwnerAnswers
<1>1. RegistryOK /\ SingleOwner => OwnerAnswers
  BY OnlyOwnerAnswers DEF OwnerAnswers
<1> QED BY <1>1, RegistryStructure, SingleOwnership, PTL

(* When that is so before and after a step that leaves the owner alone, it *)
(* answers after it what it answered before.                               *)
LEMMA OwnerKeepsAnswering ==
    ASSUME RegistryOK, OwnerAnswers, OwnerAnswers',
           NEW m \in Method, NEW p \in Path, Unambiguous(p)
    PROVE  KeepsAnswering(m, p)
<1> SUFFICES ASSUME Resolve(m, p) # Unresolved,
                    store'[Resolve(m, p).owner] = store[Resolve(m, p).owner]
             PROVE  Resolve(m, p)' = Resolve(m, p)
  BY DEF KeepsAnswering
<1>1. Answering(m, p) # {}
  BY DEF Resolve
<1>2. PICK s \in ServiceId :
         /\ store[s].status = "ok"
         /\ Hits(s, m, p) # {}
         /\ Resolve(m, p) = [owner |-> s, route |-> store[s].routes[Min(Hits(s, m, p))],
                             labels |-> store[s].labels]
  BY <1>1, ResolveFinds DEF Answering
<1>3. store'[s] = store[s]
  BY <1>2
<1>4. Hits(s, m, p)' = Hits(s, m, p)
  BY <1>3 DEF Hits
<1>5. Resolve(m, p)' = [owner |-> s, route |-> store'[s].routes[Min(Hits(s, m, p)')],
                        labels |-> store'[s].labels]
  BY <1>2, <1>3, <1>4 DEF OwnerAnswers
<1> QED BY <1>2, <1>3, <1>4, <1>5

(* So nothing that happens to other services changes the answer.           *)
THEOREM RegistryIsolation == SpecRegistry => UnambiguousUnaffected
<1>1. RegistryOK /\ OwnerAnswers /\ OwnerAnswers' =>
         [\A m \in Method, p \in Path : Unambiguous(p) => KeepsAnswering(m, p)]_registryVars
  BY OwnerKeepsAnswering
<1> QED BY <1>1, RegistryStructure, RegistryOwnerAnswers, PTL DEF UnambiguousUnaffected
================================================================================
