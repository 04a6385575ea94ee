-------------------------- MODULE ClientIdentityProofs --------------------------
(***************************************************************************)
(* Proofs about the client library, for every claim, tenant, role and      *)
(* local user.                                                             *)
(***************************************************************************)
EXTENDS ClientIdentity, RequestPathProofs

(* A request has a gateway user or the one that Django left.               *)
LEMMA UserKind ==
    ASSUME NEW meta, NEW local \in LocalUser
    PROVE  /\ User(meta, local).kind \in {"gateway", "session", "anonymous"}
           /\ User(meta, local).kind = "gateway" <=> ~Blank(meta["userId"])
BY DEF User, GatewayUser, LocalUser

(* The decorators for roles ask for a gateway user and what they are given.*)
LEMMA ByRolesView ==
    ASSUME NEW user, NEW allowed \in BOOLEAN,
           user.kind \in {"gateway", "session", "anonymous"}
    PROVE  ByRoles(user, allowed) = "view" <=> user.kind = "gateway" /\ allowed
<1>1. CASE user.kind = "anonymous"
  BY <1>1 DEF ByRoles
<1>2. CASE user.kind = "gateway" /\ allowed
  BY <1>2 DEF ByRoles
<1>3. CASE user.kind # "anonymous" /\ ~(user.kind = "gateway" /\ allowed)
  BY <1>3 DEF ByRoles
<1> QED BY <1>1, <1>2, <1>3

(* Whatever is in the headers, decorators and permissions agree.           *)
THEOREM ViewsAgree == SpecPath => []ViewsAndPermissionsAgree
<1>1. ViewsAndPermissionsAgree
  <2> SUFFICES ASSUME NEW r \in Request, NEW local \in LocalUser
               PROVE  LET meta == Headers(r)
                          user == User(meta, local)
                      IN  /\ RequireGatewayAuth(user) = "view" <=> IsGatewayAuthenticated(user)
                          /\ user.kind = "gateway" =>
                                (RequireTenant(GatewayTenant(meta)) = "view"
                                    <=> HasTenant(DrfTenant(meta)))
                          /\ \A roles \in SUBSET RoleNames \ {{}} :
                                /\ RequireRole(user, roles) = "view" <=> HasRole(user, roles)
                                /\ RequireAllRoles(user, roles) = "view" <=> HasAllRoles(user, roles)
    BY DEF ViewsAndPermissionsAgree
  <2> DEFINE meta == Headers(r)
             user == User(meta, local)
  <2>1. user.kind \in {"gateway", "session", "anonymous"}
    BY UserKind
  <2>2. user.kind = "gateway" => DrfTenant(meta) = GatewayTenant(meta)
    <3> HIDE DEF meta
    <3> QED BY UserKind DEF DrfTenant
  <2> HIDE DEF user, meta
  <2>3. RequireGatewayAuth(user) = "view" <=> IsGatewayAuthenticated(user)
    BY DEF RequireGatewayAuth, IsGatewayAuthenticated
  <2>4. user.kind = "gateway" =>
            (RequireTenant(GatewayTenant(meta)) = "view" <=> HasTenant(DrfTenant(meta)))
    BY <2>2 DEF RequireTenant, HasTenant
  <2>5. ASSUME NEW roles
        PROVE  /\ RequireRole(user, roles) = "view" <=> HasRole(user, roles)
               /\ RequireAllRoles(user, roles) = "view" <=> HasAllRoles(user, roles)
    <3>1. HasAnyRole(user, roles) \in BOOLEAN /\ HasAllRolesOf(user, roles) \in BOOLEAN
      BY DEF HasAnyRole, HasAllRolesOf
    <3> QED BY <2>1, <3>1, ByRolesView DEF RequireRole, RequireAllRoles, HasRole, HasAllRoles
  <2> QED BY <2>3, <2>4, <2>5 DEF user, meta
<1> QED BY <1>1, PTL
---------------------------------------------------------------------------
(* What a request carries on: the claims of its own token when its route   *)
(* needs one, a tenant when it sent a key, and a path under the prefix.    *)
NeedsClaims(l) == l.answer.route \in NeedsToken[l.answer.labels]

Underway(l) == Waiting(l) \/ l.phase \in {"reading", "sent"}

Carried(r, l) == /\ l.claims # None => l.claims = Call[r].token /\ NeedsClaims(l)
                 /\ l.tenant # None => Call[r].key # None

PrefixFits(r, l) == /\ l.answer.labels \in Labels
                    /\ Call[r].path \in Path
                    /\ IsPrefix(PrefixOf[l.answer.labels], Call[r].path)

KnownOK(r, l) == /\ Carried(r, l)
                 /\ Waiting(l) => NeedsClaims(l)
                 /\ Underway(l) => PrefixFits(r, l)

Known == \A r \in Request : KnownOK(r, req[r])

Labelled == \A sid \in ServiceId : store[sid].status = "ok" => store[sid].labels \in Labels

(* A healthy entry has the labels it was registered with.                  *)
LEMMA HealthyLabelled == SpecPath => []Labelled
<1>1. InitPath => Labelled
  BY DEF InitPath, InitRegistry, Labelled, NoEntry
<1>2. RegistryOK /\ Labelled /\ [NextRegistry]_registryVars => Labelled'
  <2> SUFFICES ASSUME RegistryOK, Labelled, [NextRegistry]_registryVars PROVE Labelled'
    OBVIOUS
  <2>1. store \in [ServiceId -> Entry]
    BY DEF RegistryOK, TypeOKRegistry
  <2>2. ASSUME NEW sid \in ServiceId, NEW entry, store' = [store EXCEPT ![sid] = entry],
               entry.status = "ok" => entry.labels \in Labels
        PROVE  Labelled'
    BY <2>1, <2>2 DEF Labelled
  <2>3. ASSUME NEW sid \in ServiceId, NEW routes, NEW labels \in Labels, Register(sid, routes, labels)
        PROVE  Labelled'
    BY <2>2, <2>3 DEF Register, RegisterHealthy, RegisterBlocked, Put, HealthyEntry, ErrorEntry
  <2>4. ASSUME NEW sid \in ServiceId, NEW labels \in Labels, RegisterError(sid, labels)
        PROVE  Labelled'
    BY <2>2, <2>4 DEF RegisterError, Put, ErrorEntry
  <2>5. ASSUME NEW sid \in ServiceId, Deregister(sid)
        PROVE  Labelled'
    BY <2>2, <2>5 DEF Deregister, Pop, NoEntry, registryVars, Labelled
  <2>6. CASE UNCHANGED registryVars
    BY <2>6 DEF registryVars, Labelled
  <2> QED BY <2>3, <2>4, <2>5, <2>6 DEF NextRegistry
<1>3. [NextPath]_pathVars => [NextRegistry]_registryVars
  BY PathStepIsRegistryStep
<1> QED BY <1>1, <1>2, <1>3, PathKeepsRegistry, PTL DEF SpecPath

(* A healthy service answers requests under its prefix only.               *)
RoutesUnderPrefix ==
    \A sid \in ServiceId : store[sid].status = "ok" =>
        \A n \in DOMAIN store[sid].routes : \A p \in Matches[store[sid].routes[n].exposed] :
            IsPrefix(PrefixOf[store[sid].labels], p)

(* So every entry is, when it is written and ever after.                   *)
LEMMA RoutesStayUnderPrefix == SpecPath => []RoutesUnderPrefix
<1>1. InitPath => RoutesUnderPrefix
  BY DEF InitPath, InitRegistry, RoutesUnderPrefix, NoEntry
<1>2. RegistryOK /\ RoutesUnderPrefix /\ [NextPath]_pathVars => RoutesUnderPrefix'
  <2> SUFFICES ASSUME RegistryOK, RoutesUnderPrefix, [NextPath]_pathVars PROVE RoutesUnderPrefix'
    OBVIOUS
  <2>1. store \in [ServiceId -> Entry]
    BY DEF RegistryOK, TypeOKRegistry
  <2>2. ASSUME NEW sid \in ServiceId, NEW entry, store' = [store EXCEPT ![sid] = entry],
               entry.status = "ok" => \A n \in DOMAIN entry.routes :
                   \A p \in Matches[entry.routes[n].exposed] : IsPrefix(PrefixOf[entry.labels], p)
        PROVE  RoutesUnderPrefix'
    BY <2>1, <2>2 DEF RoutesUnderPrefix
  <2>3. ASSUME NEW sid \in ServiceId, NEW labels \in Labels, NEW routes \in Offers[labels],
               Register(sid, routes, labels)
        PROVE  RoutesUnderPrefix'
    <3>1. CASE RegisterHealthy(sid, routes, labels)
      BY <2>2, <3>1, PrefixFirst DEF RegisterHealthy, Put, HealthyEntry
    <3>2. CASE RegisterBlocked(sid, routes, labels)
      BY <2>2, <3>2 DEF RegisterBlocked, Put, ErrorEntry
    <3> QED BY <2>3, <3>1, <3>2 DEF Register
  <2>4. ASSUME NEW sid \in ServiceId, NEW labels \in Labels, RegisterError(sid, labels)
        PROVE  RoutesUnderPrefix'
    BY <2>2, <2>4 DEF RegisterError, Put, ErrorEntry
  <2>5. ASSUME NEW sid \in ServiceId, Deregister(sid)
        PROVE  RoutesUnderPrefix'
    BY <2>2, <2>5 DEF Deregister, Pop, NoEntry, registryVars, RoutesUnderPrefix
  <2>6. CASE Discover
    BY <2>3, <2>4, <2>5, <2>6 DEF Discover
  <2>7. CASE UNCHANGED registryVars
    BY <2>7 DEF registryVars, RoutesUnderPrefix
  <2> QED BY <2>6, <2>7, PathStepDiscovers
<1> QED BY <1>1, <1>2, PathKeepsRegistry, PTL DEF SpecPath

(* A resolved route is one of a healthy service, for a path it matches.    *)
LEMMA ResolvedFits ==
    ASSUME RegistryOK, Labelled, RoutesUnderPrefix, NEW r \in Request,
           NEW l, l.answer = Resolve(Call[r].method, Call[r].path), l.answer # Unresolved
    PROVE  PrefixFits(r, l)
<1> DEFINE m == Call[r].method
           p == Call[r].path
<1>1. Answering(m, p) # {}
  BY DEF Resolve
<1>2. PICK s \in ServiceId : \E i \in Hits(s, m, p) :
          /\ store[s].status = "ok"
          /\ Resolve(m, p) = [owner |-> s, route |-> store[s].routes[i], labels |-> store[s].labels]
  <2> DEFINE n == Min(Answering(m, p))
             h == Min(Hits(order[n], m, p))
  <2>1. /\ n \in Answering(m, p) /\ order[n] \in ServiceId /\ h \in Hits(order[n], m, p)
        /\ Resolve(m, p) = [owner |-> order[n], route |-> store[order[n]].routes[h],
                            labels |-> store[order[n]].labels]
    BY <1>1, ResolveFinds
  <2> HIDE DEF n, h
  <2>2. store[order[n]].status = "ok"
    BY <2>1 DEF Answering
  <2> QED BY <2>1, <2>2
<1>3. PICK i \in Hits(s, m, p) :
          /\ store[s].status = "ok"
          /\ Resolve(m, p) = [owner |-> s, route |-> store[s].routes[i], labels |-> store[s].labels]
  BY <1>2
<1>4. l.answer.labels = store[s].labels /\ store[s].labels \in Labels
  BY <1>3 DEF Labelled
<1>5. i \in DOMAIN store[s].routes /\ p \in Matches[store[s].routes[i].exposed]
  BY <1>3 DEF Hits
<1>6. store[s].routes \in Seq(Route)
  BY RouteListAssumption, EmptySeq DEF RegistryOK, TypeOKRegistry, Entry
<1>7. store[s].routes[i] \in Route
  BY <1>5, <1>6, ElementOfSeq, LenProperties
<1>8. p \in Path
  BY <1>5, <1>7, MatchesAssumption DEF Route
<1> QED BY <1>3, <1>4, <1>5, <1>8 DEF PrefixFits, RoutesUnderPrefix

(* Nothing is known of a request that has ended.                           *)
LEMMA EndedKnown ==
    ASSUME NEW r, NEW outcome
    PROVE  KnownOK(r, Ended(outcome))
BY DEF Ended, Idle, KnownOK, Carried, Underway, Waiting

(* Nor of one that is refused.                                             *)
LEMMA UnauthorizedKnown ==
    ASSUME NEW r, NEW l
    PROVE  KnownOK(r, Unauthorized(l))
BY DEF Unauthorized, Idle, KnownOK, Carried, Underway, Waiting

(* The two checks add what they have found and keep the rest.              *)
LEMMA CheckApiKeyKnown ==
    ASSUME NEW r, NEW time, NEW l \in Local(time), Carried(r, l), PrefixFits(r, l)
    PROVE  KnownOK(r, CheckApiKey(r, l))
<1> DEFINE key == Call[r].key
           c == CheckApiKey(r, l)
<1>1. CASE c = Unauthorized(l)
  BY <1>1, UnauthorizedKnown
<1>2. CASE c = [l EXCEPT !.phase = "reading"]
  <2>1. /\ c.phase = "reading" /\ c.answer = l.answer
        /\ c.claims = l.claims /\ c.tenant = l.tenant
    BY <1>2 DEF Local
  <2> HIDE DEF c
  <2>2. KnownOK(r, c)
    BY <2>1 DEF KnownOK, Carried, NeedsClaims, Underway, Waiting, PrefixFits
  <2> QED BY <2>2 DEF c
<1>3. CASE key # None /\ c = [l EXCEPT !.phase = "reading", !.tenant = keys[key]]
  <2>1. /\ c.phase = "reading" /\ c.answer = l.answer
        /\ c.claims = l.claims
    BY <1>3 DEF Local
  <2> HIDE DEF c
  <2>2. KnownOK(r, c)
    BY <1>3, <2>1 DEF KnownOK, Carried, NeedsClaims, Underway, Waiting, PrefixFits
  <2> QED BY <2>2 DEF c
<1> QED BY <1>1, <1>2, <1>3 DEF CheckApiKey

(* A token that verifies gives the claims.                                 *)
LEMMA CheckTokenKnown ==
    ASSUME NEW r \in Request, NEW time, NEW l \in Local(time), NEW doc \in KeySet \cup {None},
           Carried(r, l), NeedsClaims(l), PrefixFits(r, l)
    PROVE  KnownOK(r, CheckToken(r, l, doc))
<1>1. CASE doc \in Verifies[Call[r].token]
  <2> DEFINE m == [l EXCEPT !.used = doc, !.claims = Call[r].token]
  <2>1. CheckToken(r, l, doc) = CheckApiKey(r, m)
    BY <1>1 DEF CheckToken
  <2>2. m \in Local(time)
    BY CallAssumption DEF Local
  <2>3. m.claims = Call[r].token /\ m.answer = l.answer /\ m.tenant = l.tenant
    BY DEF Local
  <2> HIDE DEF m
  <2>4. Carried(r, m) /\ PrefixFits(r, m)
    BY <2>3 DEF Carried, NeedsClaims, PrefixFits
  <2> QED BY <2>1, <2>2, <2>4, CheckApiKeyKnown
<1>2. CASE doc \notin Verifies[Call[r].token]
  BY <1>2, UnauthorizedKnown DEF CheckToken
<1> QED BY <1>1, <1>2

(* It is enough to look at the request that moves.                         *)
LEMMA OneMoves ==
    ASSUME PathInv, Known, NEW r \in Request, NEW l, KnownOK(r, l), req' = [req EXCEPT ![r] = l]
    PROVE  Known'
BY DEF PathInv, Known

(* A request comes, with what discovery has registered.                    *)
LEMMA ArriveKnown ==
    ASSUME PathInv, RegistryOK, Labelled, RoutesUnderPrefix, Known, NEW r \in Request, Arrive(r)
    PROVE  Known'
<1> DEFINE a == Arrived(r)
           t == Timed(r)
<1>1. clock \in Nat /\ clock \in 0 .. clock
  BY TimeAssumption DEF PathInv, Clocks
<1>2. a \in Local(clock) /\ t \in Local(clock)
  <2>1. Idle \in Local(clock)
    BY <1>1, IdleType
  <2>2. Resolve(Call[r].method, Call[r].path) \in Answer
    BY ResolveType DEF Answer
  <2> QED BY <1>1, <2>1, <2>2 DEF Arrived, Timed, Local
<1>3. /\ a.claims = None /\ a.tenant = None /\ t.claims = None /\ t.tenant = None
      /\ a.answer = Resolve(Call[r].method, Call[r].path) /\ t.answer = a.answer
  BY DEF Arrived, Timed, Idle
<1>4. Carried(r, a) /\ Carried(r, t)
  BY <1>3 DEF Carried
<1>5. a.answer # Unresolved => PrefixFits(r, a) /\ PrefixFits(r, t)
  <2> HIDE DEF a, t
  <2> QED BY <1>3, ResolvedFits DEF PrefixFits
<1>6. CASE NotFound(r)
  BY <1>6, EndedKnown, OneMoves DEF NotFound, Comes
<1>7. CASE Open(r)
  <2>1. KnownOK(r, CheckApiKey(r, a))
    BY <1>2, <1>4, <1>5, <1>7, CheckApiKeyKnown DEF Open
  <2> QED BY <1>7, <2>1, OneMoves DEF Open, Comes
<1>8. CASE MissingToken(r)
  BY <1>8, UnauthorizedKnown, OneMoves DEF MissingToken, Comes
<1>9. CASE CachedKeys(r)
  <2>1. NeedsClaims(t) /\ PrefixFits(r, t)
    BY <1>3, <1>5, <1>9 DEF CachedKeys, Secured, NeedsClaims
  <2>2. cache.doc \in KeySet \cup {None}
    BY DEF PathInv, CacheOK
  <2>3. KnownOK(r, CheckToken(r, t, cache.doc))
    BY <1>2, <1>4, <2>1, <2>2, CheckTokenKnown
  <2> QED BY <1>9, <2>3, OneMoves DEF CachedKeys, Comes
<1>10. CASE FetchKeys(r)
  <2> DEFINE f == [t EXCEPT !.phase = "fetching"]
  <2>1. f.claims = None /\ f.tenant = None /\ f.answer = a.answer
    BY <1>2, <1>3 DEF Local
  <2>2. a.answer # Unresolved /\ NeedsClaims(a)
    BY <1>10 DEF FetchKeys, Secured, NeedsClaims
  <2>3. Comes(r, f)
    BY <1>10 DEF FetchKeys
  <2> HIDE DEF f, a
  <2>4. KnownOK(r, f)
    BY <1>5, <2>1, <2>2 DEF KnownOK, Carried, NeedsClaims, PrefixFits
  <2> QED BY <2>3, <2>4, OneMoves DEF Comes
<1> QED BY <1>6, <1>7, <1>8, <1>9, <1>10 DEF Arrive

(* A request goes on.                                                      *)
LEMMA StepKnown ==
    ASSUME PathInv, Known, NEW r \in Request, RequestStep(r)
    PROVE  Known'
<1> DEFINE l == req[r]
<1>1. l \in Local(clock) /\ KnownOK(r, l)
  BY DEF PathInv, Known
<1>2. ASSUME NEW from, NEW outcome, Goes(r, from, Ended(outcome))
      PROVE  Known'
  BY <1>2, EndedKnown, OneMoves DEF Goes
<1>3. ASSUME NEW m, Goes(r, l.phase, m), Underway(l), m.answer = l.answer, m.claims = l.claims,
             m.tenant = l.tenant, Waiting(m) => Waiting(l)
      PROVE  Known'
  <2> HIDE DEF l
  <2>1. KnownOK(r, m)
    BY <1>1, <1>3 DEF KnownOK, Carried, NeedsClaims, PrefixFits
  <2> QED BY <1>3, <2>1, OneMoves DEF Goes
<1>4. CASE ProviderAnswers(r)
  <2> DEFINE m == [l EXCEPT !.phase = "answered", !.reply = published]
  <2>1. Goes(r, l.phase, m) /\ l.phase = "fetching"
    BY <1>4 DEF ProviderAnswers, Goes
  <2>2. m.answer = l.answer /\ m.claims = l.claims /\ m.tenant = l.tenant
    BY <1>1 DEF Local
  <2> QED BY <1>3, <2>1, <2>2 DEF Underway, Waiting
<1>5. CASE StoreKeys(r)
  <2> DEFINE m == [l EXCEPT !.phase = "closing", !.reply = None]
  <2>1. Goes(r, l.phase, m) /\ l.phase = "answered"
    BY <1>5 DEF StoreKeys, Goes
  <2>2. m.answer = l.answer /\ m.claims = l.claims /\ m.tenant = l.tenant
    BY <1>1 DEF Local
  <2> QED BY <1>3, <2>1, <2>2 DEF Underway, Waiting
<1>6. CASE ReadBody(r)
  <2> DEFINE m == [l EXCEPT !.phase = "sent"]
  <2>1. Goes(r, l.phase, m) /\ l.phase = "reading"
    BY <1>6 DEF ReadBody, Goes
  <2>2. m.answer = l.answer /\ m.claims = l.claims /\ m.tenant = l.tenant /\ m.phase = "sent"
    BY <1>1 DEF Local
  <2> QED BY <1>3, <2>1, <2>2 DEF Underway, Waiting
<1>7. CASE UseKeys(r)
  <2>1. l.phase = "closing" /\ req' = [req EXCEPT ![r] = CheckToken(r, l, cache.doc)]
    BY <1>7 DEF UseKeys, Goes
  <2>2. Carried(r, l) /\ NeedsClaims(l) /\ PrefixFits(r, l)
    BY <1>1, <2>1 DEF KnownOK, Underway, Waiting
  <2>3. cache.doc \in KeySet \cup {None}
    BY DEF PathInv, CacheOK
  <2> HIDE DEF l
  <2> QED BY <1>1, <2>1, <2>2, <2>3, CheckTokenKnown, OneMoves
<1>8. CASE FetchFails(r) \/ ClientLeaves(r) \/ UpstreamEnds(r)
  BY <1>2, <1>8 DEF FetchFails, ClientLeaves, UpstreamEnds
<1> QED BY <1>4, <1>5, <1>6, <1>7, <1>8 DEF RequestStep

---------------------------------------------------------------------------
(* A path without its prefix is the rest of it.                            *)
LEMMA PrefixAndRest ==
    ASSUME NEW S, NEW prefix \in Seq(S), NEW path \in Seq(S), IsPrefix(prefix, path)
    PROVE  prefix \o StripPrefix(path, prefix) = path
<1>1. Len(prefix) \in Nat /\ Len(path) \in Nat /\ Len(prefix) <= Len(path)
  BY LenProperties DEF IsPrefix
<1>2. \A i \in 1 .. Len(path) : path[i] \in S
  BY ElementOfSeq
<1>3. \A i \in 1 .. Len(prefix) : prefix[i] \in S
  BY ElementOfSeq
<1>4. ASSUME NEW i \in 1 .. Len(prefix) PROVE prefix[i] = path[i]
  <2>1. \A j \in 1 .. Len(prefix) : path[j] \in S
    BY <1>1, <1>2
  <2>2. SubSeq(prefix, 1, Len(prefix))[i] = prefix[1 + i - 1]
    BY <1>1, <1>3, SubSeqProperties
  <2>3. SubSeq(path, 1, Len(prefix))[i] = path[1 + i - 1]
    BY <1>1, <2>1, SubSeqProperties
  <2>4. 1 + i - 1 = i
    OBVIOUS
  <2> QED BY <2>2, <2>3, <2>4 DEF IsPrefix
<1>5. PICK rest : rest = SubSeq(path, Len(prefix) + 1, Len(path))
  OBVIOUS
<1>6. /\ rest \in Seq(S)
      /\ Len(rest) = Len(path) - Len(prefix)
      /\ \A i \in 1 .. Len(path) - Len(prefix) : rest[i] = path[Len(prefix) + i]
  <2>1. \A i \in Len(prefix) + 1 .. Len(path) : path[i] \in S
    BY <1>1, <1>2
  <2>2. /\ SubSeq(path, Len(prefix) + 1, Len(path)) \in Seq(S)
        /\ Len(SubSeq(path, Len(prefix) + 1, Len(path))) =
              IF Len(prefix) + 1 <= Len(path) THEN Len(path) - (Len(prefix) + 1) + 1 ELSE 0
        /\ \A i \in 1 .. Len(path) - (Len(prefix) + 1) + 1 :
              SubSeq(path, Len(prefix) + 1, Len(path))[i] = path[(Len(prefix) + 1) + i - 1]
    BY <1>1, <2>1, SubSeqProperties
  <2>3. ASSUME NEW i \in 1 .. Len(path) - Len(prefix) PROVE rest[i] = path[Len(prefix) + i]
    <3>1. i \in 1 .. Len(path) - (Len(prefix) + 1) + 1 /\ (Len(prefix) + 1) + i - 1 = Len(prefix) + i
      BY <1>1
    <3> QED BY <1>5, <2>2, <3>1
  <2> QED BY <1>1, <1>5, <2>2, <2>3
<1>7. PICK whole : whole = prefix \o rest
  OBVIOUS
<1>8. /\ whole \in Seq(S)
      /\ Len(whole) = Len(prefix) + Len(rest)
      /\ \A i \in 1 .. Len(prefix) + Len(rest) :
            whole[i] = IF i <= Len(prefix) THEN prefix[i] ELSE rest[i - Len(prefix)]
  BY <1>6, <1>7, ConcatProperties
<1>9. Len(whole) = Len(path)
  BY <1>1, <1>6, <1>8
<1>10. ASSUME NEW i \in 1 .. Len(path) PROVE whole[i] = path[i]
  <2>1. i \in 1 .. Len(prefix) + Len(rest)
    BY <1>1, <1>6
  <2>2. CASE i <= Len(prefix)
    BY <1>1, <1>4, <1>8, <2>1, <2>2
  <2>3. CASE i > Len(prefix)
    <3>1. i - Len(prefix) \in 1 .. Len(path) - Len(prefix) /\ Len(prefix) + (i - Len(prefix)) = i
      BY <1>1, <2>3
    <3>2. whole[i] = rest[i - Len(prefix)]
      BY <1>1, <1>8, <2>1, <2>3
    <3> QED BY <1>6, <3>1, <3>2
  <2> QED BY <1>1, <2>2, <2>3
<1>11. whole = path
  BY <1>8, <1>9, <1>10, SeqEqual
<1>12. StripPrefix(path, prefix) = rest
  BY <1>5 DEF StripPrefix
<1> QED BY <1>7, <1>11, <1>12

(* A header that the gateway adds a line to is not blank, unless the line  *)
(* is the only one and blank.                                              *)
LEMMA FurtherLine ==
    ASSUME NEW S, NEW own \in Seq(S), NEW line, NEW blank, line # blank
    PROVE  own \o <<line>> \notin {<<>>, <<blank>>}
<1> DEFINE U == S \cup {line}
<1>1. own \in Seq(U) /\ line \in U
  BY SeqMonotonic
<1> HIDE DEF U
<1>2. PICK lines : lines = Append(own, line)
  OBVIOUS
<1>3. own \o <<line>> = lines
  BY <1>1, <1>2, AppendIsConcat
<1>4. PICK n \in Nat : Len(lines) = n + 1 /\ lines[n + 1] = line
  BY <1>1, <1>2, AppendProperties, LenProperties
<1>5. lines # <<>>
  <2>1. Len(<<>>) = 0
    BY EmptySeq
  <2>2. n + 1 # 0
    OBVIOUS
  <2> QED BY <1>4, <2>1, <2>2
<1>6. lines # <<blank>>
  <2>1. <<blank>>[1] = blank
    OBVIOUS
  <2>2. Len(<<blank>>) = 1
    OBVIOUS
  <2>3. ASSUME lines = <<blank>> PROVE FALSE
    <3>1. n + 1 = 1
      BY <1>4, <2>2, <2>3
    <3> QED BY <1>4, <2>1, <2>3, <3>1
  <2> QED BY <2>3
<1> QED BY <1>3, <1>5, <1>6

(* What the service reads is what the request carries.                     *)
LEMMA SentKnown ==
    ASSUME PathInv, Known, NEW r \in Request, req[r].phase = "sent", NEW local \in LocalUser
    PROVE  /\ UserIsKnown(r, User(Headers(r), local))
           /\ TenantIsKnown(r, GatewayTenant(Headers(r)))
           /\ PathIsKnown(r, Headers(r))
           /\ ApiKeyHeader(r) = None
<1> DEFINE l == req[r]
           own == Call[r].own
           meta == Headers(r)
           user == User(meta, local)
<1>1. l \in Local(clock) /\ Checked(r, l) /\ Carried(r, l) /\ PrefixFits(r, l)
  BY DEF PathInv, RequestOK, Known, KnownOK, Underway
<1>2. l.claims # None <=> NeedsClaims(l)
  BY <1>1 DEF Checked, Carried, NeedsClaims
<1>3. l.claims # None => l.claims = Call[r].token
  BY <1>1 DEF Carried
<1>4. l.tenant # None <=> Call[r].key # None
  BY <1>1 DEF Checked, Carried
<1>5. /\ meta["userId"] = own["userId"] \o Injected(r).userId
      /\ meta["roles"] = own["roles"] \o Injected(r).roles
      /\ meta["tenantId"] = own["tenantId"] \o (IF l.tenant # None THEN <<l.tenant.id>> ELSE <<>>)
      /\ meta["originalPath"] = own["originalPath"] \o (IF Prefixed(r) THEN <<Call[r].path>> ELSE <<>>)
  BY DEF Headers, Written, Header
<1>6. \A header \in Header : own[header] \in Seq(Range(own[header]))
  BY OwnAssumption
<1>7. \A header \in Header : own[header] \o <<>> = own[header]
  BY <1>6, ConcatEmptySeq
<1> HIDE DEF meta, own
<1>8. user.kind = "gateway" <=> ~Blank(meta["userId"])
  BY UserKind
<1>9. Injects(r) <=> AuthMode = "validate" /\ NeedsClaims(l)
  BY <1>2 DEF Injects
<1>10. UserIsKnown(r, user)
  <2>1. ASSUME Validated(r)
        PROVE  /\ user.kind = "gateway"
               /\ user.id = own["userId"] \o <<Claims[Call[r].token].id>>
               /\ user.roles = UNION {RolePieces[text] : text \in
                                  Range(own["roles"] \o Claims[Call[r].token].roles)}
    <3>1. /\ meta["userId"] = own["userId"] \o <<Claims[Call[r].token].id>>
          /\ meta["roles"] = own["roles"] \o Claims[Call[r].token].roles
      BY <1>2, <1>3, <1>5, <1>9, <2>1 DEF Injected, Validated, NeedsClaims
    <3>2. ~Blank(meta["userId"])
      BY <1>6, <2>1, <3>1, FurtherLine DEF Validated, Header, Blank
    <3>3. user = GatewayUser(meta)
      BY <3>2 DEF User
    <3> QED BY <3>1, <3>3 DEF GatewayUser
  <2>2. ASSUME Validated(r), Clean(Call[r].token)
        PROVE  /\ Range(Claims[Call[r].token].roles) \subseteq user.roles
               /\ own["roles"] = <<>> => user.roles = Range(Claims[Call[r].token].roles)
    <3> DEFINE roles == Claims[Call[r].token].roles
    <3>1. roles \in Seq(Range(roles))
      BY ClaimsAssumption, <1>1, <1>2, <2>2 DEF Validated, NeedsClaims, Carried
    <3>2. Range(own["roles"] \o roles) = Range(own["roles"]) \cup Range(roles)
      <4> DEFINE U == Range(own["roles"]) \cup Range(roles)
      <4>1. own["roles"] \in Seq(U)
        BY <1>6, SeqMonotonic DEF Header
      <4>2. roles \in Seq(U)
        BY <3>1, SeqMonotonic
      <4> HIDE DEF U, roles
      <4> QED BY <4>1, <4>2, RangeConcatenation
    <3>3. Range(roles) = UNION {RolePieces[text] : text \in Range(roles)}
      BY <2>2 DEF Clean
    <3>4. own["roles"] = <<>> => own["roles"] \o roles = roles
      BY <3>1, ConcatEmptySeq
    <3> HIDE DEF roles
    <3>5. user.roles = UNION {RolePieces[text] : text \in Range(own["roles"] \o roles)}
      BY <2>1, <2>2 DEF roles
    <3>6. Range(roles) \subseteq user.roles
      BY <3>2, <3>3, <3>5
    <3>7. own["roles"] = <<>> => user.roles = Range(roles)
      BY <3>3, <3>4, <3>5
    <3> QED BY <3>6, <3>7 DEF roles
  <2>3. ASSUME user.kind = "gateway", own["userId"] = <<>>, ~Validated(r)
        PROVE  FALSE
    <3>1. CASE ~Injects(r)
      <4>1. meta["userId"] = <<>>
        BY <1>5, <1>7, <2>3, <3>1 DEF Injected, Header
      <4> QED BY <1>8, <2>3, <4>1 DEF Blank
    <3>2. CASE Injects(r)
      <4>1. Claims[l.claims].id = ""
        BY <1>2, <1>3, <1>9, <2>3, <3>2 DEF Validated, NeedsClaims
      <4>2. meta["userId"] = <<>> \o <<"">>
        BY <1>5, <2>3, <3>2, <4>1 DEF Injected
      <4>3. <<"">> \in Seq({""})
        OBVIOUS
      <4>4. meta["userId"] = <<"">>
        BY <4>2, <4>3, ConcatEmptySeq
      <4> QED BY <1>8, <2>3, <4>4 DEF Blank
    <3> QED BY <3>1, <3>2
  <2> HIDE DEF user
  <2> QED BY <2>1, <2>2, <2>3 DEF UserIsKnown, own
<1>11. TenantIsKnown(r, GatewayTenant(meta))
  <2>1. ASSUME Call[r].key # None
        PROVE  GatewayTenant(meta).id = own["tenantId"] \o <<l.tenant.id>>
    <3>1. l.tenant.id \in TenantIds
      BY <1>1, <1>4, <2>1 DEF Local, TenantIds
    <3>2. meta["tenantId"] = own["tenantId"] \o <<l.tenant.id>>
      BY <1>4, <1>5, <2>1
    <3>3. ~Blank(meta["tenantId"])
      BY <1>6, <3>1, <3>2, FurtherLine, TenantAssumption DEF Header, Blank
    <3> QED BY <3>2, <3>3 DEF GatewayTenant
  <2>2. ASSUME Call[r].key = None, own["tenantId"] = <<>>
        PROVE  GatewayTenant(meta) = TenantUnset
    <3>1. meta["tenantId"] = <<>>
      BY <1>4, <1>5, <1>7, <2>2 DEF Header
    <3> QED BY <3>1 DEF GatewayTenant, Blank
  <2> QED BY <2>1, <2>2 DEF TenantIsKnown, own
<1>12. PathIsKnown(r, meta)
  <2> DEFINE prefix == PrefixOf[l.answer.labels]
             path == Call[r].path
  <2>1. /\ prefix \in Seq(Range(prefix) \cup Range(path))
        /\ path \in Seq(Range(prefix) \cup Range(path))
        /\ IsPrefix(prefix, path)
    BY <1>1, PrefixAssumption DEF PrefixFits
  <2>2. UpstreamPath(r) = StripPrefix(path, prefix)
    BY DEF UpstreamPath
  <2>3. prefix \o StripPrefix(path, prefix) = path
    <3> HIDE DEF prefix, path
    <3> QED BY <2>1, PrefixAndRest
  <2> QED BY <1>5, <2>2, <2>3 DEF PathIsKnown, own
<1>13. ApiKeyHeader(r) = None
  BY <1>4 DEF ApiKeyHeader
<1> QED BY <1>10, <1>11, <1>12, <1>13 DEF meta

(* A service learns of the caller that the gateway checked, whatever is    *)
(* registered, reloaded or refreshed while the request is on its way and   *)
(* whatever headers of its own the request comes with; and of nobody else, *)
(* as far as it comes with none.                                           *)
THEOREM CallersAreKnown == SpecPath => []ServiceKnowsCaller
<1>1. InitPath => Known
  BY DEF InitPath, Known, KnownOK, Carried, Underway, Waiting, Idle
<1>2. /\ PathInv /\ RegistryOK /\ Labelled /\ RoutesUnderPrefix /\ Known
      /\ [NextPath]_pathVars
      => Known'
  <2> SUFFICES ASSUME PathInv, RegistryOK, Labelled, RoutesUnderPrefix, Known, [NextPath]_pathVars
               PROVE  Known'
    OBVIOUS
  <2>1. CASE Tick \/ Publish \/ EditKeyFile \/ ReloadApiKeys \/ Discover \/ UNCHANGED pathVars
    <3>1. req' = req
      BY <2>1 DEF Tick, Publish, EditKeyFile, ReloadApiKeys, Discover, pathVars
    <3> QED BY <3>1 DEF Known
  <2> QED BY <2>1, ArriveKnown, StepKnown DEF NextPath
<1>3. PathInv /\ Known => ServiceKnowsCaller
  <2> SUFFICES ASSUME PathInv, Known, NEW r \in Request, req[r].phase = "sent"
               PROVE  /\ \A local \in LocalUser : UserIsKnown(r, User(Headers(r), local))
                      /\ TenantIsKnown(r, GatewayTenant(Headers(r)))
                      /\ PathIsKnown(r, Headers(r))
                      /\ ApiKeyHeader(r) = None
    BY Zenon DEF ServiceKnowsCaller
  <2>1. "session" \in LocalUser
    BY DEF LocalUser
  <2> QED BY <2>1, SentKnown
<1> QED BY <1>1, <1>2, <1>3, PathInvariant, PathKeepsRegistry, HealthyLabelled,
           RoutesStayUnderPrefix, PTL DEF SpecPath
================================================================================
