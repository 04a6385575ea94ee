--------------------------- MODULE RequestPathProofs ---------------------------
(***************************************************************************)
(* Proofs about requests on their way through the gateway, for any number  *)
(* of clients, key sets, key files and services, and any TTL.              *)
(***************************************************************************)
EXTENDS RequestPath, RouteRegistryProofs

(* The registry moves only by discovery,                                   *)
LEMMA PathStepDiscovers == [NextPath]_pathVars => Discover \/ UNCHANGED registryVars
<1>1. ASSUME NEW r \in Request, Arrive(r) PROVE UNCHANGED registryVars
  BY <1>1 DEF Arrive, NotFound, Open, MissingToken, CachedKeys, FetchKeys, Comes
<1>2. ASSUME NEW r \in Request, RequestStep(r) PROVE UNCHANGED registryVars
  BY <1>2 DEF RequestStep, ProviderAnswers, FetchFails, StoreKeys, UseKeys, ReadBody,
              ClientLeaves, UpstreamEnds, Goes
<1>3. CASE Tick \/ Publish \/ EditKeyFile \/ ReloadApiKeys
  BY <1>3 DEF Tick, Publish, EditKeyFile, ReloadApiKeys
<1>4. CASE UNCHANGED pathVars
  BY <1>4 DEF pathVars
<1> QED BY <1>1, <1>2, <1>3, <1>4 DEF NextPath

(* and only by its own operations.                                         *)
LEMMA PathStepIsRegistryStep == [NextPath]_pathVars => [NextRegistry]_registryVars
<1>1. Discover => NextRegistry
  <2>1. \A labels \in Labels : Offers[labels] \subseteq RouteList
    BY OffersAssumption
  <2> QED BY <2>1 DEF Discover, NextRegistry
<1> QED BY <1>1, PathStepDiscovers

(* So what is proved of it holds while requests pass.                      *)
THEOREM PathKeepsRegistry == SpecPath => []RegistryOK
<1>1. InitPath => InitRegistry
  BY DEF InitPath
<1>2. SpecPath => SpecRegistry
  BY <1>1, PathStepIsRegistryStep, PTL DEF SpecPath, SpecRegistry
<1> QED BY <1>2, RegistryStructure, PTL

---------------------------------------------------------------------------
(* The inductive invariant.  Of a request: its types; an answer that is    *)
(* not yet stored was published after the request came; a request that     *)
(* waits for another's refresh can only be given a set that was asked for  *)
(* at most MaxFetch before it; and whoever passed the checks obeyed them.  *)
Answer == [owner : ServiceId \cup {None}, route : Route \cup {<<>>}, labels : Labels \cup {None}]

Local(time) == [phase : Phase, answer : Answer, now : 0 .. time,
                reply : KeySet \cup {None}, used : KeySet \cup {None},
                claims : DOMAIN Verifies \cup {None}, tenant : Tenants \cup {None},
                outcome : Outcome]

Waiting(l) == l.phase \in {"fetching", "answered", "closing"}

InTime(l, last) == l.used # None => \/ last[l.used] + TTL >= l.now
                                    \/ last[l.used] + MaxFetch >= l.now

Checked(r, l) == /\ l.answer # Unresolved
                 /\ l.answer.route \in NeedsToken[l.answer.labels] => l.claims # None
                 /\ l.answer.labels \in NeedsApiKey => l.tenant # None
                 /\ Call[r].key # None => l.tenant # None

RequestOK(r, l, at, time, last) ==
    /\ l.outcome # "none" <=> l.phase = "done"
    /\ l.reply # None => l.phase = "answered" /\ last[l.reply] >= l.now
    /\ Waiting(l) => /\ JwksUrl
                     /\ Call[r].token # None
                     /\ l.answer # Unresolved
                     /\ l.tenant = None
                     /\ time <= l.now + MaxFetch
    /\ l.phase = "closing" => at + MaxFetch >= l.now
    /\ l.phase \in {"reading", "sent"} => Checked(r, l)
    /\ InTime(l, last)

Clocks == /\ clock \in 0 .. MaxTime
          /\ published \in KeySet
          /\ lastPublished \in [KeySet -> Int]
          /\ lastPublished[published] = clock
          /\ \A doc \in KeySet : lastPublished[doc] <= clock

CacheOK == /\ cache \in [doc : KeySet \cup {None}, at : 0 .. clock]
           /\ cache.doc # None => JwksUrl /\ lastPublished[cache.doc] >= cache.at

KeysOK == /\ keyFile \in KeyFile
          /\ \A key \in DOMAIN keys : keys[key] \in Tenants \ {None}

PathInv == /\ Clocks /\ CacheOK /\ KeysOK
           /\ req \in [Request -> Local(clock)]
           /\ \A r \in Request : RequestOK(r, req[r], cache.at, clock, lastPublished)

---------------------------------------------------------------------------
(* API keys: whatever is loaded maps keys to tenants, never to None.       *)
LEMMA StoreOfTenants ==
    ASSUME NEW file \in KeyFile \ {None}
    PROVE  \A key \in DOMAIN StoreOf(file.entries) : StoreOf(file.entries)[key] \in Tenants \ {None}
<1> DEFINE entries == file.entries
           valid == {n \in DOMAIN entries : None \notin {entries[n].key, entries[n].tenant}}
<1>1. Len(entries) \in Nat /\ DOMAIN entries = 1 .. Len(entries)
  BY KeyFileAssumption, LenProperties
<1> DEFINE S == {entries[n].key : n \in valid}
           F(key) == entries[Max({n \in valid : entries[n].key = key})].tenant
<1>2. ASSUME NEW key \in S PROVE F(key) \in Tenants \ {None}
  <2> DEFINE T == {n \in valid : entries[n].key = key}
  <2>1. T # {} /\ T \in SUBSET (1 .. Len(entries))
    BY <1>1
  <2>2. Max(T) \in T
    <3> HIDE DEF T
    <3> QED BY <1>1, <2>1, MaxProperty
  <2>3. Max(T) \in DOMAIN entries /\ entries[Max(T)].tenant # None
    BY <2>2
  <2>4. \A n \in DOMAIN entries : entries[n].tenant \in Tenants
    BY DEF Tenants
  <2> HIDE DEF T
  <2>5. F(key) = entries[Max(T)].tenant
    BY DEF T
  <2> HIDE DEF F, entries
  <2> QED BY <2>3, <2>4, <2>5
<1>3. StoreOf(entries) = [key \in S |-> F(key)]
  BY DEF StoreOf
<1> HIDE DEF S, F
<1> QED BY <1>2, <1>3

(* Whatever the key file holds, a key stands for a tenant.                 *)
LEMMA LoadedTenants ==
    ASSUME NEW file \in KeyFile, NEW old,
           \A key \in DOMAIN old : old[key] \in Tenants \ {None}
    PROVE  \A key \in DOMAIN LoadApiKeys(file, old) : LoadApiKeys(file, old)[key] \in Tenants \ {None}
<1>1. CASE file = None
  BY <1>1 DEF LoadApiKeys, NoKeys
<1>2. CASE file # None /\ file.parses
  BY <1>2, StoreOfTenants DEF LoadApiKeys
<1>3. CASE file # None /\ ~file.parses
  BY <1>3 DEF LoadApiKeys
<1> QED BY <1>1, <1>2, <1>3

---------------------------------------------------------------------------
(* The local variables before a request comes.                             *)
LEMMA IdleType == ASSUME NEW time \in Nat PROVE Idle \in Local(time)
<1>1. Unresolved \in Answer
  BY DEF Unresolved, Answer
<1>2. 0 \in 0 .. time
  OBVIOUS
<1> QED BY <1>1, <1>2 DEF Idle, Local, Phase, Outcome

(* A request that leaves the path carries nothing on.                      *)
LEMMA EndedOK ==
    ASSUME NEW r, NEW outcome \in Outcome \ {"none"}, NEW at, NEW time \in Nat, NEW last
    PROVE  Ended(outcome) \in Local(time) /\ RequestOK(r, Ended(outcome), at, time, last)
<1> DEFINE e == Ended(outcome)
<1>1. Idle \in Local(time) /\ Idle.reply = None /\ Idle.used = None
  BY IdleType DEF Idle
<1>2. e \in Local(time)
  BY <1>1 DEF Ended, Local, Phase
<1>3. e.phase = "done" /\ e.outcome = outcome /\ e.reply = None /\ e.used = None
  BY <1>1 DEF Ended, Local
<1> HIDE DEF e
<1>4. RequestOK(r, e, at, time, last)
  BY <1>3 DEF RequestOK, Waiting, InTime
<1> QED BY <1>2, <1>4 DEF e

(* Nor does a refusal, except what it was judged by.                       *)
LEMMA UnauthorizedOK ==
    ASSUME NEW r, NEW at, NEW time \in Nat, NEW last, NEW l \in Local(time), InTime(l, last)
    PROVE  Unauthorized(l) \in Local(time) /\ RequestOK(r, Unauthorized(l), at, time, last)
<1> DEFINE e == Unauthorized(l)
<1>1. Idle \in Local(time) /\ Idle.reply = None
  BY IdleType DEF Idle
<1>2. e \in Local(time)
  BY <1>1 DEF Unauthorized, Local, Phase, Outcome
<1>3. e.phase = "done" /\ e.outcome = "refused" /\ e.reply = None /\ e.used = l.used /\ e.now = l.now
  BY <1>1 DEF Unauthorized, Local
<1> HIDE DEF e
<1>4. RequestOK(r, e, at, time, last)
  BY <1>3 DEF RequestOK, Waiting, InTime
<1> QED BY <1>2, <1>4 DEF e

(* Who passes the check of the key has obeyed the policy of its route, if  *)
(* the token was checked before.                                           *)
LEMMA CheckApiKeyOK ==
    ASSUME KeysOK, NEW r, NEW at, NEW time \in Nat, NEW last, NEW l \in Local(time),
           InTime(l, last), l.reply = None, l.outcome = "none", l.tenant = None,
           l.answer # Unresolved,
           l.answer.route \in NeedsToken[l.answer.labels] => l.claims # None
    PROVE  CheckApiKey(r, l) \in Local(time) /\ RequestOK(r, CheckApiKey(r, l), at, time, last)
<1> DEFINE key == Call[r].key
<1>1. CASE key = None /\ l.answer.labels \in NeedsApiKey
  <2>1. CheckApiKey(r, l) = Unauthorized(l)
    BY <1>1 DEF CheckApiKey
  <2> QED BY <2>1, UnauthorizedOK
<1>2. CASE key = None /\ l.answer.labels \notin NeedsApiKey
  <2>1. CheckApiKey(r, l) = [l EXCEPT !.phase = "reading"]
    BY <1>2 DEF CheckApiKey
  <2> QED BY <1>2, <2>1 DEF Local, RequestOK, Waiting, InTime, Checked, Phase
<1>3. CASE key # None /\ key \notin DOMAIN keys
  <2>1. CheckApiKey(r, l) = Unauthorized(l)
    BY <1>3 DEF CheckApiKey
  <2> QED BY <2>1, UnauthorizedOK
<1>4. CASE key # None /\ key \in DOMAIN keys
  <2>1. CheckApiKey(r, l) = [l EXCEPT !.phase = "reading", !.tenant = keys[key]]
    BY <1>4 DEF CheckApiKey
  <2>2. keys[key] \in Tenants \ {None}
    BY <1>4 DEF KeysOK
  <2> HIDE DEF key
  <2> QED BY <2>1, <2>2 DEF Local, RequestOK, Waiting, InTime, Checked, Phase
<1> QED BY <1>1, <1>2, <1>3, <1>4

(* And the check of the token comes first, whenever one is needed.         *)
LEMMA CheckTokenOK ==
    ASSUME KeysOK, NEW r \in Request, NEW at, NEW time \in Nat, NEW last, NEW l \in Local(time),
           NEW doc \in KeySet \cup {None}, InTime([l EXCEPT !.used = doc], last),
           l.reply = None, l.outcome = "none", l.tenant = None,
           l.answer # Unresolved, Call[r].token # None
    PROVE  /\ CheckToken(r, l, doc) \in Local(time)
           /\ RequestOK(r, CheckToken(r, l, doc), at, time, last)
<1>1. CASE doc \in Verifies[Call[r].token]
  <2> DEFINE m == [l EXCEPT !.used = doc, !.claims = Call[r].token]
  <2>1. CheckToken(r, l, doc) = CheckApiKey(r, m)
    BY <1>1 DEF CheckToken
  <2>2. /\ m \in Local(time)
        /\ m.reply = None /\ m.outcome = "none" /\ m.tenant = None /\ m.answer # Unresolved
        /\ m.claims # None
    BY CallAssumption DEF Local
  <2>3. InTime(m, last)
    BY DEF InTime, Local
  <2> HIDE DEF m
  <2> QED BY <2>1, <2>2, <2>3, CheckApiKeyOK
<1>2. CASE doc \notin Verifies[Call[r].token]
  <2> DEFINE m == [l EXCEPT !.used = doc]
  <2>1. CheckToken(r, l, doc) = Unauthorized(m)
    BY <1>2 DEF CheckToken
  <2>2. m \in Local(time)
    BY DEF Local
  <2> HIDE DEF m
  <2> QED BY <2>1, <2>2, UnauthorizedOK DEF m
<1> QED BY <1>1, <1>2

---------------------------------------------------------------------------
(* One request moves: it is enough to look at it, and at the cache for the *)
(* others.                                                                 *)
LEMMA RequestMoves ==
    ASSUME PathInv, NEW r \in Request, NEW l \in Local(clock),
           req' = [req EXCEPT ![r] = l],
           UNCHANGED <<clock, published, lastPublished, keyFile, keys>>, CacheOK',
           RequestOK(r, l, cache'.at, clock, lastPublished),
           \A t \in Request : req[t].phase = "closing" => cache'.at + MaxFetch >= req[t].now
    PROVE  PathInv'
<1>1. req' \in [Request -> Local(clock)]
  BY DEF PathInv
<1>2. ASSUME NEW t \in Request PROVE RequestOK(t, req'[t], cache'.at, clock, lastPublished)
  <2>1. CASE t = r
    BY <2>1 DEF PathInv
  <2>2. CASE t # r
    <3>1. req'[t] = req[t]
      BY <2>2 DEF PathInv
    <3>2. RequestOK(t, req[t], cache.at, clock, lastPublished)
      BY DEF PathInv
    <3> QED BY <3>1, <3>2 DEF RequestOK
  <2> QED BY <2>1, <2>2
<1>3. clock' = clock /\ lastPublished' = lastPublished
  OBVIOUS
<1>4. Clocks' /\ KeysOK'
  BY DEF PathInv, Clocks, KeysOK
<1> QED BY <1>1, <1>2, <1>3, <1>4 DEF PathInv

(* A request comes.                                                        *)
LEMMA ArriveOK ==
    ASSUME PathInv, RegistryOK, NEW r \in Request, Arrive(r)
    PROVE  PathInv'
<1> DEFINE a == Arrived(r)
           t == Timed(r)
<1>1. clock \in Nat /\ clock \in 0 .. clock
  BY TimeAssumption DEF PathInv, Clocks
<1>2. a \in Local(clock) /\ t \in Local(clock)
  <2>1. Idle \in Local(clock)
    BY <1>1, IdleType
  <2>2. Resolve(Call[r].method, Call[r].path) \in Answer
    BY ResolveType DEF Answer
  <2> QED BY <1>1, <2>1, <2>2 DEF Arrived, Timed, Local
<1>3. /\ a.reply = None /\ a.used = None /\ a.outcome = "none" /\ a.tenant = None
      /\ t.reply = None /\ t.used = None /\ t.outcome = "none" /\ t.tenant = None
      /\ t.answer = a.answer /\ t.now = clock
  BY DEF Arrived, Timed, Idle
<1>4. ASSUME NEW l \in Local(clock), RequestOK(r, l, cache.at, clock, lastPublished), Comes(r, l)
      PROVE  PathInv'
  <2>1. CacheOK'
    BY <1>4 DEF Comes, PathInv, CacheOK, providerVars
  <2>2. \A u \in Request : req[u].phase = "closing" => cache.at + MaxFetch >= req[u].now
    BY DEF PathInv, RequestOK
  <2> QED BY <1>4, <2>1, <2>2, RequestMoves DEF Comes, providerVars, keyVars
<1>5. CASE NotFound(r)
  BY <1>1, <1>4, <1>5, EndedOK DEF NotFound, Outcome
<1>6. CASE Open(r)
  <2>1. InTime(a, lastPublished)
    BY <1>3 DEF InTime
  <2>2. a.answer # Unresolved /\ a.answer.route \notin NeedsToken[a.answer.labels]
    BY <1>6 DEF Open, Secured
  <2>3. KeysOK
    BY DEF PathInv
  <2> HIDE DEF a
  <2>4. CheckApiKey(r, a) \in Local(clock) /\ RequestOK(r, CheckApiKey(r, a), cache.at, clock, lastPublished)
    BY <1>1, <1>2, <1>3, <2>1, <2>2, <2>3, CheckApiKeyOK
  <2> QED BY <1>4, <1>6, <2>4 DEF Open, a
<1>7. CASE MissingToken(r)
  <2>1. InTime(a, lastPublished)
    BY <1>3 DEF InTime
  <2> QED BY <1>1, <1>2, <1>4, <1>7, <2>1, UnauthorizedOK DEF MissingToken
<1>8. CASE CachedKeys(r)
  <2>1. ~Expired /\ Call[r].token # None /\ t.answer # Unresolved
    BY <1>3, <1>8 DEF CachedKeys
  <2>2. CacheOK /\ KeysOK /\ lastPublished \in [KeySet -> Int]
    BY DEF PathInv, Clocks
  <2>3. cache.doc \in KeySet \cup {None}
    BY <2>2 DEF CacheOK
  <2>4. InTime([t EXCEPT !.used = cache.doc], lastPublished)
    <3> SUFFICES ASSUME cache.doc # None
                 PROVE  lastPublished[cache.doc] + TTL >= clock
      BY <1>2, <1>3 DEF InTime, Local
    <3>1. clock - cache.at <= TTL /\ lastPublished[cache.doc] >= cache.at
      BY <1>1, <2>1, <2>2, TimeAssumption DEF Expired, CacheOK
    <3>2. lastPublished[cache.doc] \in Int /\ cache.at \in Int /\ clock \in Int /\ TTL \in Int
      BY <1>1, <2>2, <2>3, TimeAssumption DEF CacheOK
    <3> QED BY <3>1, <3>2
  <2> HIDE DEF t
  <2>5. /\ CheckToken(r, t, cache.doc) \in Local(clock)
        /\ RequestOK(r, CheckToken(r, t, cache.doc), cache.at, clock, lastPublished)
    BY <1>1, <1>2, <1>3, <2>1, <2>2, <2>3, <2>4, CheckTokenOK
  <2> QED BY <1>4, <1>8, <2>5 DEF CachedKeys, t
<1>9. CASE FetchKeys(r)
  <2> DEFINE f == [t EXCEPT !.phase = "fetching"]
  <2>1. f \in Local(clock)
    BY <1>2 DEF Local, Phase
  <2>2. /\ f.phase = "fetching" /\ f.reply = None /\ f.used = None /\ f.outcome = "none"
        /\ f.tenant = None /\ f.answer = a.answer /\ f.now = clock
    BY <1>2, <1>3 DEF Local
  <2>3. JwksUrl /\ Call[r].token # None /\ a.answer # Unresolved
    BY <1>9 DEF FetchKeys, Expired
  <2>4. Comes(r, f)
    BY <1>9 DEF FetchKeys
  <2> HIDE DEF f
  <2>5. RequestOK(r, f, cache.at, clock, lastPublished)
    BY <1>1, <2>2, <2>3, TimeAssumption DEF RequestOK, Waiting, InTime
  <2> QED BY <1>4, <2>1, <2>4, <2>5
<1> QED BY <1>5, <1>6, <1>7, <1>8, <1>9 DEF Arrive

(* What a step of a request that leaves the cache alone has to show.       *)
LEMMA GoesOK ==
    ASSUME PathInv, NEW r \in Request, NEW from, NEW l \in Local(clock),
           Goes(r, from, l), UNCHANGED cache,
           RequestOK(r, l, cache.at, clock, lastPublished)
    PROVE  PathInv'
<1>1. CacheOK'
  BY DEF Goes, PathInv, CacheOK, providerVars
<1>2. \A u \in Request : req[u].phase = "closing" => cache.at + MaxFetch >= req[u].now
  BY DEF PathInv, RequestOK
<1> QED BY <1>1, <1>2, RequestMoves DEF Goes, providerVars, keyVars

(* The provider's answer is what it publishes now, after the request came. *)
LEMMA ProviderAnswersOK ==
    ASSUME PathInv, NEW r \in Request, ProviderAnswers(r)
    PROVE  PathInv'
<1> DEFINE l == [req[r] EXCEPT !.phase = "answered", !.reply = published]
<1>1. req[r] \in Local(clock) /\ req[r].phase = "fetching"
  BY DEF PathInv, ProviderAnswers, Goes
<1>2. RequestOK(r, req[r], cache.at, clock, lastPublished)
  BY DEF PathInv
<1>3. /\ published \in KeySet /\ lastPublished[published] = clock /\ clock >= req[r].now
      /\ clock \in Nat
  BY <1>1, TimeAssumption DEF PathInv, Clocks, Local
<1>4. l \in Local(clock)
  BY <1>1, <1>3 DEF Local, Phase
<1>5. /\ l.phase = "answered" /\ l.reply = published /\ l.used = req[r].used /\ l.now = req[r].now
      /\ l.outcome = req[r].outcome /\ l.answer = req[r].answer /\ l.tenant = req[r].tenant
  BY <1>1 DEF Local
<1>6. Goes(r, "fetching", l) /\ UNCHANGED cache
  BY DEF ProviderAnswers
<1> HIDE DEF l
<1>7. RequestOK(r, l, cache.at, clock, lastPublished)
  BY <1>1, <1>2, <1>3, <1>5 DEF RequestOK, Waiting, InTime
<1> QED BY <1>4, <1>6, <1>7, GoesOK

(* An answer is stored with the time at which its request came.  Those who *)
(* wait came at most MaxFetch after it.                                    *)
LEMMA StoreKeysOK ==
    ASSUME PathInv, NEW r \in Request, StoreKeys(r)
    PROVE  PathInv'
<1> DEFINE l == [req[r] EXCEPT !.phase = "closing", !.reply = None]
<1>1. req[r] \in Local(clock) /\ req[r].phase = "answered"
  BY DEF PathInv, StoreKeys, Goes
<1>2. RequestOK(r, req[r], cache.at, clock, lastPublished)
  BY DEF PathInv
<1>3. /\ req' = [req EXCEPT ![r] = l]
      /\ cache' = [doc |-> req[r].reply, at |-> req[r].now]
      /\ UNCHANGED <<clock, published, lastPublished, keyFile, keys>>
  BY DEF StoreKeys, Goes, providerVars, keyVars
<1>4. l \in Local(clock)
  BY <1>1 DEF Local, Phase
<1>5. /\ l.phase = "closing" /\ l.reply = None /\ l.used = req[r].used /\ l.now = req[r].now
      /\ l.outcome = req[r].outcome /\ l.answer = req[r].answer /\ l.tenant = req[r].tenant
  BY <1>1 DEF Local
<1>6. /\ req[r].now \in 0 .. clock /\ req[r].reply \in KeySet \cup {None}
      /\ JwksUrl /\ clock <= req[r].now + MaxFetch
      /\ req[r].reply # None => lastPublished[req[r].reply] >= req[r].now
  BY <1>1, <1>2 DEF Local, RequestOK, Waiting
<1>7. CacheOK'
  BY <1>3, <1>6 DEF CacheOK
<1>8. ASSUME NEW u \in Request PROVE cache'.at + MaxFetch >= req[u].now
  <2>1. req[u].now \in 0 .. clock /\ clock \in Nat
    BY TimeAssumption DEF PathInv, Local, Clocks
  <2> QED BY <1>3, <1>6, <2>1, TimeAssumption
<1> HIDE DEF l
<1>9. RequestOK(r, l, cache'.at, clock, lastPublished)
  BY <1>1, <1>2, <1>3, <1>5, <1>8 DEF RequestOK, Waiting, InTime
<1> QED BY <1>3, <1>4, <1>7, <1>8, <1>9, RequestMoves

(* What a waiting request is judged by was asked for at most MaxFetch      *)
(* before it came, whoever stored it.                                      *)
LEMMA UseKeysOK ==
    ASSUME PathInv, NEW r \in Request, UseKeys(r)
    PROVE  PathInv'
<1> DEFINE l == req[r]
           c == CheckToken(r, l, cache.doc)
<1>1. l \in Local(clock) /\ l.phase = "closing" /\ clock \in Nat
  BY TimeAssumption DEF PathInv, UseKeys, Goes, Clocks
<1>2. RequestOK(r, l, cache.at, clock, lastPublished)
  BY DEF PathInv
<1>3. /\ CacheOK /\ KeysOK /\ lastPublished \in [KeySet -> Int]
      /\ cache.doc \in KeySet \cup {None} /\ cache.at \in 0 .. clock
  BY DEF PathInv, Clocks, CacheOK
<1>4. Goes(r, "closing", c) /\ UNCHANGED cache
  BY DEF UseKeys
<1> HIDE DEF l
<1>5. InTime([l EXCEPT !.used = cache.doc], lastPublished)
  <2> SUFFICES ASSUME cache.doc # None
               PROVE  lastPublished[cache.doc] + MaxFetch >= l.now
    BY <1>1 DEF InTime, Local
  <2>1. lastPublished[cache.doc] >= cache.at /\ cache.at + MaxFetch >= l.now
    BY <1>1, <1>2, <1>3 DEF CacheOK, RequestOK
  <2>2. lastPublished[cache.doc] \in Int /\ l.now \in Int
    BY <1>1, <1>3 DEF Local
  <2> QED BY <1>1, <1>3, <2>1, <2>2, TimeAssumption
<1>6. /\ l.reply = None /\ l.outcome = "none" /\ l.tenant = None
      /\ l.answer # Unresolved /\ Call[r].token # None
  BY <1>1, <1>2 DEF RequestOK, Waiting, Local, Outcome
<1>7. c \in Local(clock) /\ RequestOK(r, c, cache.at, clock, lastPublished)
  BY <1>1, <1>3, <1>5, <1>6, CheckTokenOK
<1> HIDE DEF c
<1> QED BY <1>4, <1>7, GoesOK

(* The other steps of a request.                                           *)
LEMMA RequestStepOK ==
    ASSUME PathInv, NEW r \in Request, RequestStep(r)
    PROVE  PathInv'
<1>1. clock \in Nat
  BY TimeAssumption DEF PathInv, Clocks
<1>2. ASSUME NEW from, NEW outcome \in Outcome \ {"none"}, Goes(r, from, Ended(outcome)), UNCHANGED cache
      PROVE  PathInv'
  BY <1>1, <1>2, EndedOK, GoesOK
<1>3. CASE ReadBody(r)
  <2> DEFINE l == [req[r] EXCEPT !.phase = "sent"]
  <2>1. req[r] \in Local(clock) /\ req[r].phase = "reading"
    BY <1>3 DEF PathInv, ReadBody, Goes
  <2>2. RequestOK(r, req[r], cache.at, clock, lastPublished)
    BY DEF PathInv
  <2>3. l \in Local(clock)
    BY <2>1 DEF Local, Phase
  <2>4. /\ l.phase = "sent" /\ l.reply = req[r].reply /\ l.used = req[r].used /\ l.now = req[r].now
        /\ l.outcome = req[r].outcome /\ l.answer = req[r].answer /\ l.tenant = req[r].tenant
        /\ l.claims = req[r].claims
    BY <2>1 DEF Local
  <2>5. Goes(r, "reading", l) /\ UNCHANGED cache
    BY <1>3 DEF ReadBody
  <2> HIDE DEF l
  <2>6. RequestOK(r, l, cache.at, clock, lastPublished)
    BY <2>1, <2>2, <2>4 DEF RequestOK, Waiting, InTime, Checked
  <2> QED BY <2>3, <2>5, <2>6, GoesOK
<1>4. CASE FetchFails(r) \/ ClientLeaves(r) \/ UpstreamEnds(r)
  BY <1>2, <1>4 DEF FetchFails, ClientLeaves, UpstreamEnds, Outcome
<1> QED BY <1>3, <1>4, ProviderAnswersOK, StoreKeysOK, UseKeysOK DEF RequestStep

---------------------------------------------------------------------------
(* The world moves: the clock does not go back, and what was published     *)
(* once may be published again, later.                                     *)
LEMMA RequestsKept ==
    ASSUME PathInv, UNCHANGED <<req, cache>>, clock' \in Nat, clock' >= clock,
           lastPublished' \in [KeySet -> Int],
           \A doc \in KeySet : lastPublished'[doc] >= lastPublished[doc],
           \A r \in Request : Waiting(req[r]) => clock' <= req[r].now + MaxFetch
    PROVE  /\ req' \in [Request -> Local(clock')]
           /\ \A r \in Request : RequestOK(r, req'[r], cache'.at, clock', lastPublished')
           /\ cache' \in [doc : KeySet \cup {None}, at : 0 .. clock']
           /\ cache'.doc # None => JwksUrl /\ lastPublished'[cache'.doc] >= cache'.at
<1>1. clock \in Nat /\ lastPublished \in [KeySet -> Int]
  BY TimeAssumption DEF PathInv, Clocks
<1>2. \A t \in 0 .. clock : t \in 0 .. clock'
  BY <1>1
<1>3. ASSUME NEW l \in Local(clock) PROVE l \in Local(clock')
  BY <1>2, <1>3 DEF Local
<1>4. ASSUME NEW r \in Request PROVE RequestOK(r, req[r], cache.at, clock', lastPublished')
  <2>1. RequestOK(r, req[r], cache.at, clock, lastPublished) /\ req[r] \in Local(clock)
    BY DEF PathInv
  <2>2. /\ req[r].now \in Int
        /\ req[r].used # None => req[r].used \in KeySet
        /\ req[r].reply # None => req[r].reply \in KeySet
    BY <2>1 DEF Local
  <2>3. InTime(req[r], lastPublished')
    BY <1>1, <2>1, <2>2, TimeAssumption DEF RequestOK, InTime
  <2>4. req[r].reply # None => req[r].phase = "answered" /\ lastPublished'[req[r].reply] >= req[r].now
    BY <1>1, <2>1, <2>2 DEF RequestOK
  <2> QED BY <2>1, <2>3, <2>4 DEF RequestOK
<1>5. /\ cache \in [doc : KeySet \cup {None}, at : 0 .. clock']
      /\ cache.doc # None => JwksUrl /\ lastPublished'[cache.doc] >= cache.at
  <2>1. CacheOK
    BY DEF PathInv
  <2>2. cache \in [doc : KeySet \cup {None}, at : 0 .. clock']
    BY <1>2, <2>1 DEF CacheOK
  <2>3. cache.at \in Int /\ cache.doc \in KeySet \cup {None}
    BY <2>1, <1>1 DEF CacheOK
  <2> QED BY <1>1, <2>1, <2>2, <2>3 DEF CacheOK
<1>6. req \in [Request -> Local(clock')]
  BY <1>3 DEF PathInv
<1> QED BY <1>4, <1>5, <1>6

(* Time and the provider.                                                  *)
LEMMA ProviderOK ==
    ASSUME PathInv, Tick \/ Publish
    PROVE  PathInv'
<1>1. /\ clock \in Nat /\ published \in KeySet /\ lastPublished \in [KeySet -> Int]
      /\ lastPublished[published] = clock
      /\ \A doc \in KeySet : lastPublished[doc] <= clock
  BY TimeAssumption DEF PathInv, Clocks
<1>2. \A r \in Request : Waiting(req[r]) => clock <= req[r].now + MaxFetch
  BY DEF PathInv, RequestOK
<1>3. UNCHANGED <<req, cache, keyFile, keys>>
  BY DEF Tick, Publish, keyVars
<1>4. CASE Tick
  <2>1. /\ clock' = clock + 1 /\ clock' \in 0 .. MaxTime /\ published' = published
        /\ lastPublished' = [lastPublished EXCEPT ![published] = clock + 1]
    BY <1>1, <1>4, TimeAssumption DEF Tick
  <2>2. \A doc \in KeySet : lastPublished'[doc] = IF doc = published THEN clock + 1 ELSE lastPublished[doc]
    BY <1>1, <2>1
  <2>3. lastPublished' \in [KeySet -> Int]
    BY <1>1, <2>1
  <2>4. \A doc \in KeySet : lastPublished[doc] \in Int
    BY <1>1
  <2>5. Clocks'
    BY <1>1, <2>1, <2>2, <2>3, <2>4 DEF Clocks
  <2>6. ASSUME NEW r \in Request, Waiting(req[r]) PROVE clock' <= req[r].now + MaxFetch
    <3>1. req[r].now \in Int /\ clock < req[r].now + MaxFetch
      BY <1>4, <2>6 DEF Tick, Refreshing, Waiting, PathInv, Local
    <3> QED BY <1>1, <2>1, <3>1, TimeAssumption
  <2>7. \A doc \in KeySet : lastPublished'[doc] >= lastPublished[doc]
    BY <1>1, <2>2, <2>4
  <2>8. clock' \in Nat /\ clock' >= clock
    BY <1>1, <2>1
  <2> QED BY <1>3, <2>3, <2>5, <2>6, <2>7, <2>8, RequestsKept DEF PathInv, CacheOK, KeysOK
<1>5. CASE Publish
  <2>1. PICK new \in KeySet : /\ published' = new
                              /\ lastPublished' = [lastPublished EXCEPT ![new] = clock]
                              /\ clock' = clock
    BY <1>5 DEF Publish
  <2>2. \A doc \in KeySet : lastPublished'[doc] = IF doc = new THEN clock ELSE lastPublished[doc]
    BY <1>1, <2>1
  <2>3. lastPublished' \in [KeySet -> Int]
    BY <1>1, <2>1
  <2>4. \A doc \in KeySet : lastPublished[doc] \in Int
    BY <1>1
  <2>5. Clocks'
    <3>1. clock \in 0 .. MaxTime
      BY DEF PathInv, Clocks
    <3> QED BY <1>1, <2>1, <2>2, <2>3, <2>4, <3>1 DEF Clocks
  <2>6. \A doc \in KeySet : lastPublished'[doc] >= lastPublished[doc]
    BY <1>1, <2>2, <2>4
  <2> QED BY <1>1, <1>2, <1>3, <2>1, <2>3, <2>5, <2>6, RequestsKept DEF PathInv, CacheOK, KeysOK
<1> QED BY <1>4, <1>5

(* The key file and the registry.                                          *)
LEMMA SurroundingsOK ==
    ASSUME PathInv, EditKeyFile \/ ReloadApiKeys \/ Discover \/ UNCHANGED pathVars
    PROVE  PathInv'
<1>1. UNCHANGED <<req, cache, clock, published, lastPublished>>
  BY DEF EditKeyFile, ReloadApiKeys, Discover, pathVars, providerVars
<1>2. Clocks' /\ CacheOK'
  BY <1>1 DEF PathInv, Clocks, CacheOK
<1>3. KeysOK'
  <2>1. CASE ReloadApiKeys
    BY <2>1, LoadedTenants DEF ReloadApiKeys, KeysOK, PathInv
  <2>2. CASE EditKeyFile
    BY <2>2 DEF EditKeyFile, KeysOK, PathInv
  <2>3. CASE Discover \/ UNCHANGED pathVars
    BY <2>3 DEF Discover, pathVars, keyVars, KeysOK, PathInv
  <2> QED BY <2>1, <2>2, <2>3
<1> QED BY <1>1, <1>2, <1>3 DEF PathInv

(* At the start nothing is cached and no request is under way.             *)
LEMMA InitPathOK == InitPath => PathInv
<1> SUFFICES ASSUME InitPath PROVE PathInv
  OBVIOUS
<1>1. clock = 0 /\ cache = [doc |-> None, at |-> 0] /\ req = [r \in Request |-> Idle]
  BY DEF InitPath
<1>2. Clocks
  <2>1. /\ published \in KeySet
        /\ lastPublished = [doc \in KeySet |-> IF doc = published THEN 0 ELSE Never]
    BY DEF InitPath
  <2>2. Never \in Int /\ Never <= 0
    BY TimeAssumption DEF Never
  <2> QED BY <1>1, <2>1, <2>2, TimeAssumption DEF Clocks
<1>3. CacheOK
  BY <1>1 DEF CacheOK
<1>4. KeysOK
  <2>1. \A key \in DOMAIN NoKeys : NoKeys[key] \in Tenants \ {None}
    BY DEF NoKeys
  <2> QED BY <2>1, LoadedTenants DEF InitPath, KeysOK
<1>5. Idle \in Local(0)
  BY IdleType
<1>6. \A r \in Request : RequestOK(r, Idle, 0, 0, lastPublished)
  BY DEF Idle, RequestOK, Waiting, InTime
<1> QED BY <1>1, <1>2, <1>3, <1>4, <1>5, <1>6 DEF PathInv

(* The invariant holds of every behaviour.                                 *)
LEMMA PathInvariant == SpecPath => []PathInv
<1>1. PathInv /\ RegistryOK /\ [NextPath]_pathVars => PathInv'
  BY ArriveOK, RequestStepOK, ProviderOK, SurroundingsOK DEF NextPath
<1> QED BY <1>1, InitPathOK, PathKeepsRegistry, PTL DEF SpecPath

---------------------------------------------------------------------------
(* Every variable keeps its type, and a request says how it ended.         *)
THEOREM PathStructure == SpecPath => []PathOK
<1>1. PathInv /\ RegistryOK => PathOK
  BY DEF PathInv, Clocks, CacheOK, KeysOK, RequestOK, PathOK, Local, Answer
<1> QED BY <1>1, PathInvariant, PathKeepsRegistry, PTL

(* Concurrent refreshes may end in any order: a request is never judged by *)
(* keys that the provider withdrew more than the TTL, or the time a GET    *)
(* takes, before it came.                                                  *)
THEOREM KeysAreFresh == SpecPath => []BoundedStaleness
<1>1. PathInv => BoundedStaleness
  BY DEF PathInv, RequestOK, InTime, BoundedStaleness
<1> QED BY <1>1, PathInvariant, PTL

(* Nothing that happens between its checks and its call lets a request     *)
(* through that the policy of its route forbids.                           *)
THEOREM PolicyIsObeyed == SpecPath => []AdmittedByPolicy
<1>1. PathInv => AdmittedByPolicy
  BY DEF PathInv, RequestOK, Checked, AdmittedByPolicy
<1> QED BY <1>1, PathInvariant, PTL

(* A key is forgotten only when a whole file, or none, says so.            *)
THEOREM KeysAreLoadedWhole == SpecPath => KeysFollowFile
<1>1. PathInv /\ [NextPath]_pathVars =>
         [\A key \in DOMAIN keys :
             \/ key \in DOMAIN keys' /\ keys'[key] = keys[key]
             \/ keyFile = None
             \/ keyFile.parses /\ keys' = StoreOf(keyFile.entries)]_pathVars
  <2> SUFFICES ASSUME PathInv, NextPath, NEW key \in DOMAIN keys
               PROVE  \/ keys' = keys
                      \/ keyFile = None
                      \/ keyFile.parses /\ keys' = StoreOf(keyFile.entries)
    OBVIOUS
  <2>1. CASE ReloadApiKeys
    <3>1. keyFile \in KeyFile
      BY DEF PathInv, KeysOK
    <3>2. keyFile # None => keyFile.parses \in BOOLEAN
      BY <3>1, KeyFileAssumption
    <3> QED BY <2>1, <3>2 DEF ReloadApiKeys, LoadApiKeys
  <2>2. ASSUME NEW r \in Request, Arrive(r) PROVE keys' = keys
    BY <2>2 DEF Arrive, NotFound, Open, MissingToken, CachedKeys, FetchKeys, Comes, keyVars
  <2>3. ASSUME NEW r \in Request, RequestStep(r) PROVE keys' = keys
    BY <2>3 DEF RequestStep, ProviderAnswers, FetchFails, StoreKeys, UseKeys, ReadBody,
                ClientLeaves, UpstreamEnds, Goes, keyVars
  <2>4. CASE Tick \/ Publish \/ EditKeyFile \/ Discover
    BY <2>4 DEF Tick, Publish, EditKeyFile, Discover, keyVars
  <2> QED BY <2>1, <2>2, <2>3, <2>4 DEF NextPath
<1> QED BY <1>1, PathInvariant, PTL DEF SpecPath, KeysFollowFile
================================================================================
