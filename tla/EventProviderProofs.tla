------------------------- MODULE EventProviderProofs -------------------------
(***************************************************************************)
(* Proofs about EventProvider.  ProviderInv holds for any number of        *)
(* activations, loops and requests; RisingOK needs that activations come   *)
(* one after the other, because two that overlap take the same version.    *)
(***************************************************************************)
EXTENDS EventProvider, TLAPS

\* The newest version exists: LatestVersion finds it.
NewestExists ==
    configs = <<>> \/ \E i \in DOMAIN configs :
                         \A j \in DOMAIN configs : configs[j].version <= configs[i].version

\* Whoever refers to a provider refers to one that was built.
RefsOK ==
    /\ cache \in 0..Len(providers)
    /\ \A i \in stale : i \in 1..Len(providers)
    /\ \A t \in Tasks : using[t] \in 0..Len(providers)

\* What the cache holds is of the version the manager notes.
CacheOfVersion ==
    cache # 0 => /\ providers[cache].from \in 0..Len(configs)
                 /\ VersionOf(providers[cache].from) = cacheVer

\* A task uses a provider of the version of the row it read.
UsesVersion(t) ==
    pc[t] \in {"subscribe", "publish"} =>
        /\ using[t] # 0
        /\ providers[using[t]].from \in 0..Len(configs)
        /\ VersionOf(providers[using[t]].from) = VersionOf(row[t])
TaskOK(t) == row[t] \in 0..Len(configs) /\ UsesVersion(t)

ProviderInv ==
    /\ TypeOK /\ NewestExists /\ RefsOK /\ CacheIsOpen /\ CacheOfVersion
    /\ \A t \in Tasks : TaskOK(t)

\* One activation at a time takes a version above all others.
RisingOK ==
    /\ \A i, j \in DOMAIN configs : i < j => configs[i].version < configs[j].version
    /\ \A i \in DOMAIN configs : configs[i].version > 0
    /\ \A a \in Admins : request[a].at \in {"retire", "commit"} =>
          /\ request[a].version > 0
          /\ \A i \in DOMAIN configs : configs[i].version < request[a].version
-----------------------------------------------------------------------------
(* Rows of provider_configs.                                               *)

\* The rows after a commit: those there were, with their versions, and one
\* more.
LEMMA CommitEffect ==
    ASSUME TypeOK, NEW a \in Admins, NEW status \in {"active", "pending"},
           CommitConfig(a, status)
    PROVE  /\ configs' \in Seq(Config) /\ Len(configs') = Len(configs) + 1
           /\ Len(configs) \in Nat /\ DOMAIN configs = 1..Len(configs)
           /\ DOMAIN configs' = DOMAIN configs \cup {Len(configs) + 1}
           /\ \A i \in DOMAIN configs : configs'[i].version = configs[i].version
           /\ configs'[Len(configs) + 1].version = request[a].version
<1> DEFINE n == Len(configs)
           Mark(i) == IF i \in request[a].retires
                      THEN [configs[i] EXCEPT !.status = Retired] ELSE configs[i]
           s == [i \in DOMAIN configs |-> Mark(i)]
           r == [version |-> request[a].version, status |-> status]
<1>1. n \in Nat /\ DOMAIN configs = 1..n /\ \A i \in 1..n : configs[i] \in Config
      BY DEF TypeOK
<1>2. r \in Config /\ r.version = request[a].version
      BY DEF TypeOK, Config
<1>3. \A i \in 1..n : Mark(i) \in Config /\ Mark(i).version = configs[i].version
      BY <1>1 DEF Config, Retired
<1>4. configs' = Append(s, r)
      BY DEF CommitConfig
<1> HIDE DEF Mark, r
<1>5. s \in Seq(Config) /\ Len(s) = n /\ \A i \in 1..n : s[i] = Mark(i)
  <2>1. s \in [1..n -> Config]
        BY <1>1, <1>3
  <2> QED
      BY <1>1, <2>1
<1> HIDE DEF s
<1>6. /\ Append(s, r) \in Seq(Config) /\ Len(Append(s, r)) = n + 1
      /\ DOMAIN Append(s, r) = 1..(n + 1)
      /\ \A i \in 1..n : Append(s, r)[i] = s[i]
      /\ Append(s, r)[n + 1] = r
      BY <1>1, <1>2, <1>5
<1> QED
    BY <1>1, <1>2, <1>3, <1>4, <1>5, <1>6

\* The latest version is the greatest there is.
LEMMA LatestIsGreatest ==
    ASSUME TypeOK, NewestExists
    PROVE  /\ LatestVersion \in Nat
           /\ \A i \in DOMAIN configs : configs[i].version <= LatestVersion
<1> DEFINE V == {configs[i].version : i \in DOMAIN configs}
<1>1. \A i \in DOMAIN configs : configs[i].version \in Nat
  <2>1. \A i \in DOMAIN configs : configs[i] \in Config
        BY DEF TypeOK
  <2> QED
      BY <2>1 DEF Config
<1>2. CASE configs = <<>>
  <2>1. DOMAIN configs = {}
        BY <1>2
  <2>2. LatestVersion = 0
        BY <1>2 DEF LatestVersion
  <2> QED
      BY <2>1, <2>2
<1>3. CASE configs # <<>>
  <2>1. \E v \in V : \A i \in DOMAIN configs : configs[i].version <= v
        BY <1>3 DEF NewestExists
  <2>2. /\ LatestVersion \in V
        /\ \A i \in DOMAIN configs : configs[i].version <= LatestVersion
        BY <1>3, <2>1 DEF LatestVersion
  <2> QED
      BY <1>1, <2>2
<1> QED
    BY <1>2, <1>3

\* Rows keep their versions.
LEMMA VersionsKept ==
    ASSUME TypeOK, NEW a \in Admins, NEW status \in {"active", "pending"},
           CommitConfig(a, status), NEW i \in 0..Len(configs)
    PROVE  i \in 0..Len(configs') /\ VersionOf(i)' = VersionOf(i)
<1>1. /\ Len(configs') = Len(configs) + 1 /\ Len(configs) \in Nat
      /\ DOMAIN configs = 1..Len(configs)
      /\ \A j \in DOMAIN configs : configs'[j].version = configs[j].version
      BY CommitEffect
<1> QED
    BY <1>1 DEF VersionOf

-----------------------------------------------------------------------------
(* Providers.                                                              *)

\* A new provider's number is nobody's.
LEMMA FreshIsFree ==
    ASSUME TypeOK, RefsOK
    PROVE  /\ Fresh \in 1..(Len(providers) + 1)
           /\ Fresh # cache /\ Fresh \notin stale /\ \A t \in Tasks : using[t] # Fresh
<1>1. Len(providers) \in Nat
      BY DEF TypeOK
<1>2. Len(providers) + 1 \notin Referenced
      BY <1>1 DEF RefsOK, Referenced
<1>3. Fresh \in 1..(Len(providers) + 1) /\ Fresh \notin Referenced
      BY <1>1, <1>2 DEF Fresh
<1> QED
    BY <1>3 DEF Referenced

\* A provider is built: it is open, from the row that was read, and the others
\* stay as they are.
LEMMA BuildEffect ==
    ASSUME TypeOK, RefsOK, NEW t \in Tasks, Build(t)
    PROVE  /\ providers' \in Seq(Provider) /\ Len(providers) <= Len(providers')
           /\ Len(providers') \in Nat /\ DOMAIN providers' = 1..Len(providers')
           /\ Fresh \in 1..Len(providers') /\ Len(providers) \in Nat
           /\ providers'[Fresh].from = row[t] /\ providers'[Fresh].is = "open"
           /\ \A i \in 1..Len(providers) : i # Fresh => providers'[i] = providers[i]
<1> DEFINE n == Len(providers)
           built == [from |-> row[t], is |-> "open"]
           f == Fresh
<1>1. n \in Nat /\ providers \in Seq(Provider) /\ row[t] \in Nat
      BY DEF TypeOK
<1>2. built \in Provider /\ built.from = row[t] /\ built.is = "open"
      BY <1>1 DEF Provider
<1>3. f \in 1..(n + 1)
      BY FreshIsFree
<1>4. providers' = IF f > n THEN Append(providers, built) ELSE [providers EXCEPT ![f] = built]
      BY DEF Build
<1> HIDE DEF built, f
<1>5. CASE f = n + 1
  <2>1. providers' = Append(providers, built)
        BY <1>1, <1>4, <1>5
  <2> QED
      BY <1>1, <1>2, <1>5, <2>1 DEF f
<1>6. CASE f \in 1..n
  <2>1. providers' = [providers EXCEPT ![f] = built]
        BY <1>1, <1>4, <1>6
  <2>2. providers' \in Seq(Provider) /\ Len(providers') = n
        BY <1>1, <1>2, <1>6, <2>1
  <2>3. providers'[f] = built /\ \A i \in 1..n : i # f => providers'[i] = providers[i]
        BY <1>1, <1>6, <2>1
  <2> QED
      BY <1>1, <1>2, <1>6, <2>2, <2>3 DEF f
<1> QED
    BY <1>1, <1>3, <1>5, <1>6

\* A provider is closed: only that changes, and only of it.
LEMMA CloseEffect ==
    ASSUME TypeOK, RefsOK, NEW t \in Tasks, CloseOne(t)
    PROVE  /\ providers' \in Seq(Provider) /\ Len(providers') = Len(providers)
           /\ \A i \in 1..Len(providers) :
                 /\ providers'[i].from = providers[i].from
                 /\ i \notin stale => providers'[i] = providers[i]
           /\ stale' \subseteq stale
<1>1. PICK i \in stale : /\ stale' = stale \ {i}
                         /\ providers' = [providers EXCEPT ![i] =
                                             [providers[i] EXCEPT !.is = "closed"]]
      BY DEF CloseOne
<1>2. providers \in Seq(Provider) /\ Len(providers) \in Nat
      BY DEF TypeOK
<1>3. \A p \in Provider : LET q == [p EXCEPT !.is = "closed"] IN
         q \in Provider /\ q.from = p.from
      BY DEF Provider
<1>4. \A j \in 1..Len(providers) : providers[j] \in Provider
      BY <1>2
<1> DEFINE q == [providers[i] EXCEPT !.is = "closed"]
<1>5. i \in 1..Len(providers) /\ q \in Provider /\ q.from = providers[i].from
      BY <1>3, <1>4 DEF RefsOK
<1>6. providers' = [providers EXCEPT ![i] = q]
      BY <1>1
<1> HIDE DEF q
<1>7. providers' \in Seq(Provider) /\ Len(providers') = Len(providers)
      BY <1>2, <1>4, <1>5, <1>6
<1>8. ASSUME NEW j \in 1..Len(providers)
      PROVE  providers'[j] = IF j = i THEN q ELSE providers[j]
  <2>1. j \in DOMAIN providers
        BY <1>2
  <2> QED
      BY <1>6, <2>1
<1> QED
    BY <1>1, <1>5, <1>7, <1>8

\* What a task does with the provider it is handed.
LEMMA ReceiveEffect ==
    ASSUME TypeOK, NEW t \in Tasks, NEW i, Receive(t, i)
    PROVE  /\ pc'[t] \in {"subscribe", "compare", "publish"}
           /\ pc'[t] \in {"subscribe", "publish"} => using'[t] = i
           /\ using'[t] \in {using[t], i}
           /\ \A u \in Tasks \ {t} : pc'[u] = pc[u] /\ using'[u] = using[u]
           /\ pc' \in [Tasks -> Pcs] /\ last' \in [Tasks -> Int]
           /\ i \in Nat => using' \in [Tasks -> Nat]
BY DEF Receive, Goto, TypeOK, Pcs

-----------------------------------------------------------------------------
(* ProviderInv is inductive.                                               *)

LEMMA InitProviderInv == Init => ProviderInv
<1> SUFFICES ASSUME Init PROVE ProviderInv
    OBVIOUS
<1>1. configs \in Seq(Config) /\ NewestExists
  <2> DEFINE r == [version |-> 1, status |-> "active"]
  <2>1. r \in Config
        BY DEF Config
  <2> HIDE DEF r
  <2>2. <<>> \in Seq(Config) /\ <<r>> \in Seq(Config)
        BY <2>1
  <2>3. configs = <<>> \/ configs = <<r>>
        BY DEF Init, r
  <2>4. <<r>>[1].version = 1 /\ DOMAIN <<r>> = {1}
        BY DEF r
  <2>5. CASE configs = <<r>>
    <3>1. 1 \in DOMAIN configs /\ \A j \in DOMAIN configs : configs[j].version <= configs[1].version
          BY <2>4, <2>5
    <3> QED
        BY <2>2, <2>5, <3>1 DEF NewestExists
  <2> QED
      BY <2>2, <2>3, <2>5 DEF NewestExists
<1>2. providers = <<>> /\ providers \in Seq(Provider) /\ Len(providers) = 0
      BY DEF Init
<1>3. Len(configs) \in Nat
      BY <1>1
<1>4. TypeOK
      BY <1>1, <1>2, ProviderAssumption DEF Init, TypeOK, Pcs, Unset, Env
<1>5. RefsOK /\ CacheIsOpen /\ CacheOfVersion
      BY <1>2 DEF Init, RefsOK, CacheIsOpen, CacheOfVersion
<1>6. \A t \in Tasks : TaskOK(t)
      BY <1>3 DEF Init, TaskOK, UsesVersion
<1> QED
    BY <1>1, <1>4, <1>5, <1>6 DEF ProviderInv

\* A step that leaves the table and the providers alone, forgets the cache or
\* keeps it, and puts at most the cached provider away.
Forgets ==
    /\ UNCHANGED <<process, configs, providers>>
    /\ UNCHANGED <<cache, stale>> \/ (cache' = 0 /\ stale' = PutAway)
    /\ cacheVer' = cacheVer \/ (cacheVer' = Unset /\ cache' = 0)

LEMMA ForgetsEffect ==
    ASSUME ProviderInv, Forgets
    PROVE  /\ configs' \in Seq(Config) /\ cache' \in Nat /\ cacheVer' \in Int
           /\ process' \in {"api", "worker"} /\ providers' \in Seq(Provider)
           /\ stale' \in SUBSET Nat
           /\ NewestExists' /\ CacheIsOpen' /\ CacheOfVersion'
           /\ cache' \in 0..Len(providers') /\ \A i \in stale' : i \in 1..Len(providers')
<1>1. /\ configs' \in Seq(Config) /\ cache' \in Nat /\ cacheVer' \in Int
      /\ process' \in {"api", "worker"} /\ providers' \in Seq(Provider)
      /\ stale' \in SUBSET Nat
  <2>1. UNCHANGED <<process, configs, providers>>
        BY DEF Forgets
  <2>2. cache' \in {cache, 0} /\ cacheVer' \in {cacheVer, -1} /\ stale' \subseteq stale \cup {cache}
        BY DEF Forgets, PutAway, Unset
  <2>3. /\ configs \in Seq(Config) /\ cache \in Nat /\ cacheVer \in Int
        /\ process \in {"api", "worker"} /\ providers \in Seq(Provider)
        /\ stale \in SUBSET Nat
        BY DEF ProviderInv, TypeOK
  <2> QED
      BY <2>1, <2>2, <2>3
<1>2. NewestExists' /\ CacheIsOpen' /\ CacheOfVersion'
      BY DEF ProviderInv, Forgets, NewestExists, CacheIsOpen, CacheOfVersion, Open, VersionOf
<1>3. cache' \in 0..Len(providers') /\ \A i \in stale' : i \in 1..Len(providers')
  <2>1. Len(providers) \in Nat
        BY DEF ProviderInv, TypeOK
  <2> QED
      BY <2>1 DEF ProviderInv, RefsOK, Forgets, PutAway
<1> QED
    BY <1>1, <1>2, <1>3

\* The activation requests.
LEMMA ActivateInv ==
    ASSUME ProviderInv, NEW a \in Admins, Activate(a)
    PROVE  ProviderInv'
<1> USE DEF ProviderInv
<1>1. CASE ReadLatest(a) \/ RetireActive(a) \/ InvalidateApi(a)
  <2>1. Forgets /\ UNCHANGED <<failures, task>>
        BY <1>1 DEF ReadLatest, RetireActive, InvalidateApi, Forgets, Invalidate, manager
  <2>2. request' \in [Admins -> [at : {"none", "retire", "commit", "invalidate"},
                                 version : Nat, retires : SUBSET Nat]]
    <3>1. LatestVersion + 1 \in Nat
          BY LatestIsGreatest
    <3>2. RetiredActive \in SUBSET Nat
          BY DEF RetiredActive, ActiveRows, TypeOK
    <3>3. request \in [Admins -> [at : {"none", "retire", "commit", "invalidate"},
                                  version : Nat, retires : SUBSET Nat]]
          BY DEF TypeOK
    <3> HIDE DEF ProviderInv
    <3> QED
        BY <1>1, <3>1, <3>2, <3>3 DEF ReadLatest, RetireActive, InvalidateApi
  <2>3. TypeOK'
        BY <2>1, <2>2, ForgetsEffect DEF TypeOK, task
  <2>4. RefsOK'
        BY <2>1, ForgetsEffect DEF RefsOK, task, Forgets
  <2>5. \A t \in Tasks : TaskOK(t)'
        BY <2>1 DEF TaskOK, UsesVersion, VersionOf, task, Forgets
  <2> QED
      BY <2>1, <2>3, <2>4, <2>5, ForgetsEffect
<1>2. ASSUME NEW status \in {"active", "pending"}, CommitConfig(a, status)
      PROVE  ProviderInv'
  <2>1. UNCHANGED <<process, failures, manager, task>>
        BY <1>2 DEF CommitConfig
  <2>2. TypeOK'
    <3>1. request' \in [Admins -> [at : {"none", "retire", "commit", "invalidate"},
                                   version : Nat, retires : SUBSET Nat]]
          BY <1>2 DEF CommitConfig, TypeOK
    <3>2. configs' \in Seq(Config)
          BY <1>2, CommitEffect
    <3> QED
        BY <2>1, <3>1, <3>2 DEF TypeOK, manager, task
  <2>3. NewestExists'
    <3> DEFINE n == Len(configs)
               v == request[a].version
    <3>1. /\ n \in Nat /\ DOMAIN configs = 1..n
          /\ DOMAIN configs' = DOMAIN configs \cup {n + 1}
          /\ \A i \in DOMAIN configs : configs'[i].version = configs[i].version
          /\ configs'[n + 1].version = v
          BY <1>2, CommitEffect
    <3>2. LatestVersion \in Nat /\ v \in Nat
          BY LatestIsGreatest DEF TypeOK
    <3>3. \A i \in DOMAIN configs : configs[i].version \in Nat
      <4>1. \A i \in DOMAIN configs : configs[i] \in Config
            BY DEF TypeOK
      <4> QED
          BY <4>1 DEF Config
    <3> HIDE DEF n, v
    <3>4. CASE \A i \in DOMAIN configs : configs[i].version <= v
          BY <3>1, <3>2, <3>4 DEF NewestExists
    <3>5. CASE \E i \in DOMAIN configs : ~(configs[i].version <= v)
      <4>1. PICK i \in DOMAIN configs :
                     \A j \in DOMAIN configs : configs[j].version <= configs[i].version
            BY <3>1, <3>5 DEF NewestExists
      <4>2. v <= configs[i].version
            BY <3>2, <3>3, <3>5, <4>1
      <4>3. \A j \in DOMAIN configs' : configs'[j].version <= configs'[i].version
            BY <3>1, <4>1, <4>2
      <4> QED
          BY <3>1, <4>3 DEF NewestExists
    <3> QED
        BY <3>4, <3>5
  <2>4. RefsOK' /\ CacheIsOpen'
        BY <2>1 DEF RefsOK, CacheIsOpen, Open, manager, task
  <2>5. CacheOfVersion'
        BY <1>2, <2>1, VersionsKept DEF CacheOfVersion, manager
  <2>6. \A t \in Tasks : TaskOK(t)'
        BY <1>2, <2>1, VersionsKept DEF TaskOK, UsesVersion, manager, task
  <2> QED
      BY <2>2, <2>3, <2>4, <2>5, <2>6
<1> QED
    BY <1>1, <1>2 DEF Activate

\* The steps of a task that only moves on, or puts the cached provider away.
LEMMA MovesInv ==
    ASSUME ProviderInv, NEW t \in Tasks,
           \/ ReadVersion(t) \/ CancelConsume(t) \/ Reconnect(t) \/ NoChange(t)
           \/ DrainRequest(t) \/ NoneStale(t) \/ ReadRow(t) \/ Replace(t) \/ Subscribe(t)
           \/ EndDrain(t) \/ TickFails(t)
    PROVE  ProviderInv'
<1>1. TypeOK /\ RefsOK /\ TaskOK(t) /\ Len(configs) \in Nat
      BY DEF ProviderInv, TypeOK
<1>2. Forgets /\ UNCHANGED request
      BY DEF ReadVersion, CancelConsume, TickFails, Reconnect, NoChange, DrainRequest, NoneStale, ReadRow, Replace,
         Subscribe, EndDrain, Forgets, Invalidate, manager, task
<1>3. /\ pc' \in [Tasks -> Pcs] /\ seen' \in [Tasks -> Int] /\ last' \in [Tasks -> Int]
      /\ row' \in [Tasks -> Nat] /\ using' \in [Tasks -> Nat]
  <2>1. /\ pc \in [Tasks -> Pcs] /\ seen \in [Tasks -> Int] /\ last \in [Tasks -> Int]
        /\ row \in [Tasks -> Nat] /\ using \in [Tasks -> Nat]
        BY <1>1 DEF TypeOK
  <2>2. \A i \in 0..Len(configs) : VersionOf(i) \in Int
    <3>1. \A i \in DOMAIN configs : configs[i] \in Config
          BY <1>1 DEF TypeOK
    <3>2. \A i \in DOMAIN configs : configs[i].version \in Nat
          BY <3>1 DEF Config
    <3>3. DOMAIN configs = 1..Len(configs)
          BY <1>1 DEF TypeOK
    <3> QED
        BY <1>1, <3>2, <3>3 DEF VersionOf, Env
  <2>3. CASE ReadVersion(t)
        BY <2>1, <2>2, <2>3 DEF ReadVersion, Goto, Pcs
  <2>4. CASE ReadRow(t)
        BY <1>1, <2>1, <2>4 DEF ReadRow, Goto, Pcs
  <2>5. CASE CancelConsume(t) \/ Reconnect(t) \/ NoneStale(t) \/ Replace(t) \/ DrainRequest(t)
        BY <2>1, <2>5 DEF CancelConsume, Reconnect, NoneStale, Replace, DrainRequest, Goto, Pcs
  <2>6. CASE NoChange(t) \/ Subscribe(t) \/ EndDrain(t) \/ TickFails(t)
        BY <2>1, <2>6 DEF NoChange, Subscribe, EndDrain, TickFails, Sleep, Goto, Pcs, Unset
  <2> QED
      BY <2>3, <2>4, <2>5, <2>6
<1>4. TypeOK'
  <2>1. failures' \in 0..MaxFailures
    <3>1. failures' = failures \/ (failures < MaxFailures /\ failures' = failures + 1)
          BY DEF ReadVersion, CancelConsume, TickFails, Reconnect, NoChange, DrainRequest,
             NoneStale, ReadRow, Replace, Subscribe, EndDrain
    <3> QED
        BY <1>1, <3>1, ProviderAssumption DEF TypeOK
  <2> QED
      BY <1>1, <1>2, <1>3, <2>1, ForgetsEffect DEF TypeOK
<1>5. /\ using'[t] \in {using[t], 0} /\ pc'[t] \notin {"subscribe", "publish"}
      /\ row'[t] \in 0..Len(configs)
      /\ \A u \in Tasks \ {t} : pc'[u] = pc[u] /\ using'[u] = using[u] /\ row'[u] = row[u]
  <2>1. /\ pc \in [Tasks -> Pcs] /\ row \in [Tasks -> Nat] /\ using \in [Tasks -> Nat]
        /\ row[t] \in 0..Len(configs)
        BY <1>1 DEF TypeOK, TaskOK
  <2>2. CASE ReadVersion(t) \/ ReadRow(t)
        BY <2>1, <2>2 DEF ReadVersion, ReadRow, Goto
  <2>3. CASE CancelConsume(t) \/ Reconnect(t) \/ NoneStale(t) \/ Replace(t) \/ DrainRequest(t)
        BY <2>1, <2>3 DEF CancelConsume, Reconnect, NoneStale, Replace, DrainRequest, Goto
  <2>4. CASE NoChange(t) \/ Subscribe(t) \/ EndDrain(t) \/ TickFails(t)
        BY <1>1, <2>1, <2>4 DEF NoChange, Subscribe, EndDrain, TickFails, Sleep, Goto
  <2> QED
      BY <2>2, <2>3, <2>4
<1>6. RefsOK'
  <2>1. providers' = providers /\ Len(providers) \in Nat
        BY <1>1, <1>2 DEF Forgets, TypeOK
  <2>2. cache' \in 0..Len(providers') /\ \A i \in stale' : i \in 1..Len(providers')
        BY <1>2, ForgetsEffect
  <2>3. \A u \in Tasks : using'[u] \in {using[u], 0}
        BY <1>5
  <2> QED
      BY <1>1, <2>1, <2>2, <2>3 DEF RefsOK
<1>7. \A u \in Tasks : TaskOK(u)'
  <2>1. configs' = configs /\ providers' = providers
        BY <1>2 DEF Forgets
  <2>2. \A u \in Tasks : TaskOK(u)
        BY DEF ProviderInv
  <2> QED
      BY <1>5, <2>1, <2>2 DEF TaskOK, UsesVersion, VersionOf
<1>8. NewestExists' /\ CacheIsOpen' /\ CacheOfVersion'
      BY <1>2, ForgetsEffect
<1> QED
    BY <1>4, <1>6, <1>7, <1>8 DEF ProviderInv

\* A stale provider is closed: it is not the cached one.
LEMMA CloseInv ==
    ASSUME ProviderInv, NEW t \in Tasks, CloseOne(t)
    PROVE  ProviderInv'
<1>1. /\ TypeOK /\ RefsOK /\ CacheIsOpen /\ CacheOfVersion /\ NewestExists
      /\ \A u \in Tasks : TaskOK(u)
      BY DEF ProviderInv
<1>2. UNCHANGED <<process, failures, configs, request, cache, cacheVer, task>>
      BY DEF CloseOne
<1>3. /\ providers' \in Seq(Provider) /\ Len(providers') = Len(providers)
      /\ \A i \in 1..Len(providers) :
            /\ providers'[i].from = providers[i].from
            /\ i \notin stale => providers'[i] = providers[i]
      /\ stale' \subseteq stale /\ Len(providers) \in Nat
      BY <1>1, CloseEffect DEF TypeOK
<1>4. TypeOK'
      BY <1>1, <1>2, <1>3 DEF TypeOK, task
<1>5. RefsOK' /\ NewestExists'
      BY <1>1, <1>2, <1>3 DEF RefsOK, NewestExists, task
<1>6. cache # 0 => cache \in 1..Len(providers)
      BY <1>1, <1>3 DEF RefsOK
<1>7. CacheIsOpen' /\ CacheOfVersion'
      BY <1>1, <1>2, <1>3, <1>6 DEF CacheIsOpen, CacheOfVersion, Open, VersionOf
<1>8. ASSUME NEW u \in Tasks PROVE TaskOK(u)'
  <2>1. using[u] # 0 => using[u] \in 1..Len(providers)
        BY <1>1, <1>3 DEF RefsOK
  <2> QED
      BY <1>1, <1>2, <1>3, <2>1 DEF TaskOK, UsesVersion, VersionOf, task
<1> QED
    BY <1>4, <1>5, <1>7, <1>8 DEF ProviderInv

\* The cached provider is used.
LEMMA UseInv ==
    ASSUME ProviderInv, NEW t \in Tasks, UseCached(t)
    PROVE  ProviderInv'
<1>1. /\ TypeOK /\ RefsOK /\ CacheIsOpen /\ CacheOfVersion /\ NewestExists
      /\ \A u \in Tasks : TaskOK(u)
      BY DEF ProviderInv
<1>2. /\ UNCHANGED <<process, failures, configs, request, manager, seen, row>>
      /\ cache # 0 /\ cacheVer = VersionOf(row[t]) /\ Receive(t, cache)
      BY DEF UseCached, CacheHits
<1>3. cache \in Nat
      BY <1>1 DEF TypeOK
<1>4. /\ pc'[t] \in {"subscribe", "publish"} => using'[t] = cache
      /\ using'[t] \in {using[t], cache}
      /\ \A u \in Tasks \ {t} : pc'[u] = pc[u] /\ using'[u] = using[u]
      /\ pc' \in [Tasks -> Pcs] /\ last' \in [Tasks -> Int] /\ using' \in [Tasks -> Nat]
      BY <1>1, <1>2, <1>3, ReceiveEffect
<1>5. TypeOK'
      BY <1>1, <1>2, <1>4 DEF TypeOK, manager
<1>6. RefsOK' /\ NewestExists' /\ CacheIsOpen' /\ CacheOfVersion'
      BY <1>1, <1>2, <1>4 DEF RefsOK, NewestExists, CacheIsOpen, CacheOfVersion, Open,
         VersionOf, manager
<1>7. ASSUME NEW u \in Tasks PROVE TaskOK(u)'
      BY <1>1, <1>2, <1>4 DEF TaskOK, UsesVersion, CacheOfVersion, VersionOf, manager
<1> QED
    BY <1>5, <1>6, <1>7 DEF ProviderInv

\* A provider is built where nobody has one.
LEMMA BuildInv ==
    ASSUME ProviderInv, NEW t \in Tasks, Build(t)
    PROVE  ProviderInv'
<1> DEFINE f == Fresh
<1>1. /\ TypeOK /\ RefsOK /\ CacheIsOpen /\ CacheOfVersion /\ NewestExists
      /\ \A u \in Tasks : TaskOK(u)
      BY DEF ProviderInv
<1>2. /\ UNCHANGED <<process, failures, configs, request, stale, seen, row>>
      /\ cache' = f /\ cacheVer' = VersionOf(row[t]) /\ Receive(t, f)
      BY DEF Build
<1>3. /\ f # cache /\ f \notin stale /\ \A u \in Tasks : using[u] # f
      BY <1>1, FreshIsFree
<1>4. /\ providers' \in Seq(Provider) /\ Len(providers) <= Len(providers')
      /\ Len(providers') \in Nat /\ Len(providers) \in Nat
      /\ f \in 1..Len(providers')
      /\ providers'[f].from = row[t] /\ providers'[f].is = "open"
      /\ \A i \in 1..Len(providers) : i # f => providers'[i] = providers[i]
      BY <1>1, BuildEffect
<1> HIDE DEF f
<1>5. f \in Nat /\ f # 0
      BY <1>4
<1>6. /\ pc'[t] \in {"subscribe", "publish"} => using'[t] = f
      /\ using'[t] \in {using[t], f}
      /\ \A u \in Tasks \ {t} : pc'[u] = pc[u] /\ using'[u] = using[u]
      /\ pc' \in [Tasks -> Pcs] /\ last' \in [Tasks -> Int] /\ using' \in [Tasks -> Nat]
      BY <1>1, <1>2, <1>5, ReceiveEffect
<1>7. row[t] \in 0..Len(configs) /\ VersionOf(row[t]) \in Int
  <2>1. row[t] \in 0..Len(configs) /\ configs \in Seq(Config)
        BY <1>1 DEF TaskOK, TypeOK
  <2>2. row[t] # 0 => configs[row[t]] \in Config
        BY <2>1
  <2> QED
      BY <2>1, <2>2 DEF VersionOf, Config, Env
<1>8. TypeOK'
      BY <1>1, <1>2, <1>4, <1>5, <1>6, <1>7 DEF TypeOK
<1>9. RefsOK' /\ NewestExists' /\ CacheIsOpen'
  <2>1. RefsOK'
    <3>1. \A u \in Tasks : using'[u] \in {using[u], f}
          BY <1>6
    <3> QED
        BY <1>1, <1>2, <1>4, <3>1 DEF RefsOK
  <2> QED
      BY <1>1, <1>2, <1>3, <1>4, <2>1 DEF NewestExists, CacheIsOpen, Open
<1>10. CacheOfVersion'
      BY <1>2, <1>4, <1>7 DEF CacheOfVersion, VersionOf
<1>11. ASSUME NEW u \in Tasks PROVE TaskOK(u)'
  <2>1. using[u] # 0 => using[u] \in 1..Len(providers) /\ using[u] # f
        BY <1>1, <1>3, <1>4 DEF RefsOK
  <2>2. CASE u = t
    <3>1. row'[t] = row[t] /\ configs' = configs
          BY <1>2
    <3>2. pc'[t] \in {"subscribe", "publish"} =>
              using'[t] = f /\ providers'[using'[t]].from = row'[t]
          BY <1>4, <1>6, <3>1
    <3>3. row'[t] \in 0..Len(configs')
          BY <1>7, <3>1
    <3>4. pc'[t] \in {"subscribe", "publish"} =>
              /\ using'[t] # 0
              /\ providers'[using'[t]].from \in 0..Len(configs')
          BY <1>5, <3>2, <3>3
    <3>5. UsesVersion(t)'
          BY <3>2, <3>4 DEF UsesVersion, VersionOf
    <3> QED
        BY <2>2, <3>3, <3>5 DEF TaskOK
  <2>3. CASE u # t
    <3>1. /\ pc'[u] = pc[u] /\ using'[u] = using[u]
          /\ row' = row /\ configs' = configs
          BY <1>2, <1>6, <2>3
    <3>2. using[u] # 0 => providers'[using[u]] = providers[using[u]]
          BY <1>4, <2>1
    <3> QED
        BY <1>1, <3>1, <3>2 DEF TaskOK, UsesVersion, VersionOf
  <2> QED
      BY <2>2, <2>3
<1> QED
    BY <1>8, <1>9, <1>10, <1>11 DEF ProviderInv

THEOREM ProviderInvariant == Spec => []ProviderInv
<1>1. ASSUME ProviderInv, [Next]_vars PROVE ProviderInv'
  <2>1. CASE \E a \in Admins : Activate(a)
        BY <1>1, <2>1, ActivateInv
  <2>2. ASSUME NEW t \in Tasks, Tick(t) \/ TickFails(t) \/ DrainRequest(t)
        PROVE  ProviderInv'
        BY <1>1, <2>2, MovesInv, CloseInv, UseInv, BuildInv DEF Tick
  <2>3. CASE UNCHANGED vars
    <3>1. /\ UNCHANGED <<process, failures, configs, request, cache, cacheVer, stale, providers>>
          /\ UNCHANGED <<pc, seen, last, row, using>>
          BY <2>3 DEF vars, manager, task
    <3> QED
        BY <1>1, <3>1 DEF ProviderInv, TypeOK, NewestExists, RefsOK, CacheIsOpen, Open,
           CacheOfVersion, TaskOK, UsesVersion, VersionOf
  <2> QED
      BY <1>1, <2>1, <2>2, <2>3 DEF Next
<1> QED
    BY <1>1, InitProviderInv, PTL DEF Spec

-----------------------------------------------------------------------------
(* The theorems.                                                           *)

\* The table, the manager and the tasks keep their types.
THEOREM TypeCorrect == Spec => []TypeOK
<1>1. ProviderInv => TypeOK
      BY DEF ProviderInv
<1> QED
    BY <1>1, ProviderInvariant, PTL

\* Nobody is handed a provider that is closed or put away for closing, whatever
\* the activations, ticks and requests that run between one await and the next.
THEOREM CachedIsOpen == Spec => []CacheIsOpen
<1>1. ProviderInv => CacheIsOpen
      BY DEF ProviderInv
<1> QED
    BY <1>1, ProviderInvariant, PTL

\* The activation that runs takes a version above all rows'; with no other in
\* between, versions rise.
LEMMA RisingStep ==
    ASSUME ProviderInv, RisingOK, [Next]_vars, \A a, b \in Admins : a = b
    PROVE  RisingOK'
<1>1. TypeOK /\ NewestExists /\ request \in [Admins ->
          [at : {"none", "retire", "commit", "invalidate"}, version : Nat, retires : SUBSET Nat]]
      BY DEF ProviderInv, TypeOK
<1>2. \A i \in DOMAIN configs : configs[i].version \in Nat
  <2>1. \A i \in DOMAIN configs : configs[i] \in Config
        BY <1>1 DEF TypeOK
  <2> QED
      BY <2>1 DEF Config
<1>3. CASE UNCHANGED <<configs, request>>
      BY <1>3 DEF RisingOK
<1>4. ASSUME NEW a \in Admins, ReadLatest(a) PROVE RisingOK'
  <2> DEFINE l == LatestVersion
  <2>1. l \in Nat /\ \A i \in DOMAIN configs : configs[i].version <= l
        BY <1>1, LatestIsGreatest
  <2>2. /\ configs' = configs
        /\ request' = [request EXCEPT ![a] = [at |-> "retire", version |-> l + 1,
                                              retires |-> {}]]
        BY <1>4 DEF ReadLatest
  <2> HIDE DEF l
  <2>3. \A b \in Admins : request'[b].version = l + 1
        BY <1>1, <2>2
  <2>4. \A i \in DOMAIN configs : configs[i].version < l + 1
        BY <1>2, <2>1
  <2> QED
      BY <2>1, <2>2, <2>3, <2>4 DEF RisingOK
<1>5. ASSUME NEW a \in Admins, RetireActive(a) \/ InvalidateApi(a) PROVE RisingOK'
  <2>1. configs' = configs
        BY <1>5 DEF RetireActive, InvalidateApi
  <2>2. CASE RetireActive(a)
    <3>1. request[a].at = "retire" /\ request'[a].version = request[a].version
          BY <1>1, <2>2 DEF RetireActive
    <3> QED
        BY <2>1, <3>1 DEF RisingOK
  <2>3. CASE InvalidateApi(a)
    <3>1. request'[a].at = "none"
          BY <1>1, <2>3 DEF InvalidateApi
    <3> QED
        BY <2>1, <3>1 DEF RisingOK
  <2> QED
      BY <1>5, <2>2, <2>3
<1>6. ASSUME NEW a \in Admins, NEW status \in {"active", "pending"}, CommitConfig(a, status)
      PROVE  RisingOK'
  <2> DEFINE n == Len(configs)
             v == request[a].version
  <2>1. /\ n \in Nat /\ DOMAIN configs = 1..n
        /\ DOMAIN configs' = DOMAIN configs \cup {n + 1}
        /\ \A i \in DOMAIN configs : configs'[i].version = configs[i].version
        /\ configs'[n + 1].version = v
        BY <1>1, <1>6, CommitEffect
  <2>2. /\ v > 0 /\ v \in Nat
        /\ \A i \in DOMAIN configs : configs[i].version < v
        BY <1>1, <1>6 DEF RisingOK, CommitConfig
  <2>3. request'[a].at = "invalidate"
        BY <1>1, <1>6 DEF CommitConfig
  <2> HIDE DEF n, v
  <2>4. \A i \in DOMAIN configs' : configs'[i].version > 0
        BY <2>1, <2>2 DEF RisingOK
  <2>5. ASSUME NEW i \in DOMAIN configs', NEW j \in DOMAIN configs', i < j
        PROVE  configs'[i].version < configs'[j].version
    <3>1. i \in DOMAIN configs
          BY <2>1, <2>5
    <3> QED
        BY <2>1, <2>2, <2>5, <3>1 DEF RisingOK
  <2> QED
      BY <2>3, <2>4, <2>5 DEF RisingOK
<1>7. ASSUME NEW t \in Tasks, Tick(t) \/ TickFails(t) \/ DrainRequest(t)
      PROVE  UNCHANGED <<configs, request>>
      BY <1>7 DEF Tick, TickFails, DrainRequest, ReadVersion, CancelConsume, Reconnect,
         NoChange, CloseOne, NoneStale, ReadRow, UseCached, Replace, Build, Subscribe, EndDrain
<1> QED
    BY <1>3, <1>4, <1>5, <1>6, <1>7 DEF Next, Activate, vars

\* Between a read of the row and the use of the provider the cache may be
\* replaced by other tasks; still, when activations come one after the other,
\* the provider that is used was built from that row.
THEOREM RowReadIsUsed ==
    ASSUME \A a, b \in Admins : a = b
    PROVE  Spec => []UsesTheRowRead
<1>1. Init => RisingOK
  <2> SUFFICES ASSUME Init PROVE RisingOK
      OBVIOUS
  <2>1. \A i \in DOMAIN configs : i = 1 /\ configs[i].version = 1
        BY DEF Init
  <2>2. \A a \in Admins : request[a].at = "none"
        BY DEF Init
  <2> QED
      BY <2>1, <2>2 DEF RisingOK
<1>2. ProviderInv /\ RisingOK /\ [Next]_vars => RisingOK'
      BY RisingStep
<1>3. ASSUME ProviderInv, RisingOK PROVE UsesTheRowRead
  <2>1. /\ Len(configs) \in Nat /\ DOMAIN configs = 1..Len(configs)
        /\ \A i \in DOMAIN configs : configs[i].version \in Nat
    <3>1. /\ configs \in Seq(Config)
          /\ \A i \in DOMAIN configs : configs[i] \in Config
          BY <1>3 DEF ProviderInv, TypeOK
    <3> QED
        BY <3>1 DEF Config
  <2>2. ASSUME NEW i \in 0..Len(configs), NEW j \in 0..Len(configs), VersionOf(i) = VersionOf(j)
        PROVE  i = j
    <3>1. CASE i = 0 \/ j = 0
          BY <1>3, <2>1, <2>2, <3>1 DEF RisingOK, VersionOf, Env
    <3>2. CASE i # 0 /\ j # 0
      <4>1. i \in DOMAIN configs /\ j \in DOMAIN configs
            BY <2>1, <3>2
      <4>2. ~(i < j) /\ ~(j < i)
            BY <1>3, <2>1, <2>2, <3>2, <4>1 DEF RisingOK, VersionOf
      <4> QED
          BY <2>1, <4>1, <4>2
    <3> QED
        BY <3>1, <3>2
  <2>3. \A t \in Tasks : TaskOK(t)
        BY <1>3 DEF ProviderInv
  <2> QED
      BY <2>2, <2>3 DEF UsesTheRowRead, TaskOK, UsesVersion
<1> QED
    BY <1>1, <1>2, <1>3, ProviderInvariant, PTL DEF Spec

=============================================================================
