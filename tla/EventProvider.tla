---------------------------- MODULE EventProvider ----------------------------
(***************************************************************************)
(* Which event provider is in use: activation of a configuration           *)
(* (api/routes/admin_providers.py), the provider manager of each process   *)
(* with its cached provider and its list of stale ones                     *)
(* (providers/manager.py), and the tasks that ask it: the worker's         *)
(* publisher loop, the API's drain endpoint and a consumer loop in both.   *)
(*                                                                         *)
(* Processes share the table only, so the module is about one of them: the *)
(* API or the worker, whichever the initial state says.  A process runs *)
(* one task at a time and switches only at an await, so an action is the   *)
(* code between two awaits.  A provider is a number; closing it ends its   *)
(* consumer and its producer.                                              *)
(***************************************************************************)
EXTENDS Integers, Sequences, FiniteSets

CONSTANTS
    Admins,        \* activation requests that may run at a time
    Loops,         \* publisher loops: tasks of the worker
    Drains,        \* drain requests: tasks of the API
    Consumers,     \* consumer loops
    MaxConfigs,    \* bound: rows of provider_configs
    MaxFailures    \* bound: ticks and drains that raise

Publishers == Loops \cup Drains
Tasks      == Publishers \cup Consumers

ASSUME ProviderAssumption ==
    /\ Loops \cap Drains = {} /\ Publishers \cap Consumers = {}
    /\ MaxConfigs \in Nat /\ MaxFailures \in Nat

VARIABLES
    process,   \* the process this is about
    failures,  \* ticks and drains that raised so far
    configs,   \* provider_configs of kind event, in insertion order
    request,   \* each activation: where it is, its version, what it retires
    cache,     \* _cache["event"] of the manager, 0 without one
    cacheVer,  \* its _event_version
    stale,     \* its _stale
    providers, \* the providers it has built
    pc,        \* where each task is
    seen,      \* the version the task's tick has read
    last,      \* last_version of a loop
    row,       \* the row get_event_provider has read, 0 without one
    using      \* the provider the task publishes to or consumes from

manager == <<cache, cacheVer, stale, providers>>
task    == <<pc, seen, last, row, using>>
vars    == <<process, failures, configs, request, manager, task>>

\* Versions: none is active, so the environment decides; nothing is known yet.
Env   == 0
Unset == -1

Config   == [version : Nat, status : {"active", "pending", "retired"}]
Provider == [from : Nat, is : {"open", "closed"}]
Pcs      == {"sleep", "compare", "invalidate", "close", "read", "decide",
             "reclose", "subscribe", "publish"}

Init ==
    /\ process  \in {"api", "worker"}
    /\ failures = 0
    /\ configs  \in {<<>>, <<[version |-> 1, status |-> "active"]>>}
    /\ request  = [a \in Admins |-> [at |-> "none", version |-> 0, retires |-> {}]]
    /\ cache    = 0
    /\ cacheVer = Unset
    /\ stale    = {}
    /\ providers = <<>>
    /\ pc       = [t \in Tasks |-> "sleep"]
    /\ seen     = [t \in Tasks |-> Unset]
    /\ last     = [t \in Tasks |-> IF t \in Loops THEN Env ELSE Unset]
    /\ row      = [t \in Tasks |-> 0]
    /\ using    = [t \in Tasks |-> 0]
-----------------------------------------------------------------------------
ActiveRows    == {i \in DOMAIN configs : configs[i].status = "active"}
VersionOf(i)  == IF i = 0 THEN Env ELSE configs[i].version
LatestVersion == IF configs = <<>> THEN 0
                 ELSE CHOOSE v \in {configs[i].version : i \in DOMAIN configs} :
                          \A i \in DOMAIN configs : configs[i].version <= v

\* _active_row: the first of the rows, in whatever order they come.
ActiveRow(i)  == i \in ActiveRows \/ (i = 0 /\ ActiveRows = {})

Goto(t, where) == pc' = [pc EXCEPT ![t] = where]

\* The tick or the request is over, and its local variables are gone.
Sleep(t) == /\ Goto(t, "sleep")
            /\ seen' = [seen EXCEPT ![t] = Unset]
            /\ row' = [row EXCEPT ![t] = 0]
Open(i)        == providers[i].is = "open"

\* Whether a task of this kind runs in the process.
Here(t) == t \in CASE process = "api" -> Drains \cup Consumers
                   [] process = "worker" -> Loops \cup Consumers

\* invalidate("event").  Mutant: the provider stays in the cache.
PutAway == IF cache = 0 THEN stale ELSE stale \cup {cache}
InvalidateVersion == cacheVer' = Unset /\ stale' = PutAway /\ UNCHANGED cache
Invalidate        == cacheVer' = Unset /\ stale' = PutAway /\ cache' = 0
-----------------------------------------------------------------------------
(* activate_provider, once the configuration is validated.                 *)

ReadLatest(a) ==
    /\ request[a].at = "none"
    /\ Len(configs) + Cardinality({b \in Admins : request[b].at \in {"retire", "commit"}})
         < MaxConfigs
    /\ request' = [request EXCEPT ![a] = [at |-> "retire", version |-> LatestVersion + 1,
                                          retires |-> {}]]
    /\ UNCHANGED <<process, failures, configs, manager, task>>

\* Mutant: a status nobody knows.
Inactive == "inactive"
Retired  == "retired"

\* The update's snapshot: rows that another request inserts are not in it.
RetiredActive == ActiveRows

RetireActive(a) ==
    /\ request[a].at = "retire"
    /\ request' = [request EXCEPT ![a].at = "commit", ![a].retires = RetiredActive]
    /\ UNCHANGED <<process, failures, configs, manager, task>>

\* activate is a field of the request: otherwise the row is staged, and the
\* active one is retired all the same.
CommitConfig(a, status) ==
    /\ request[a].at = "commit"
    /\ configs' = Append([i \in DOMAIN configs |->
                             IF i \in request[a].retires
                             THEN [configs[i] EXCEPT !.status = Retired]
                             ELSE configs[i]],
                         [version |-> request[a].version, status |-> status])
    /\ request' = [request EXCEPT ![a].at = "invalidate"]
    /\ UNCHANGED <<process, failures, manager, task>>

InvalidateApi(a) ==
    /\ request[a].at = "invalidate"
    /\ request' = [request EXCEPT ![a] = [at |-> "none", version |-> 0, retires |-> {}]]
    /\ IF process = "api" THEN Invalidate ELSE UNCHANGED <<cache, cacheVer, stale>>
    /\ UNCHANGED <<process, failures, configs, providers, task>>
-----------------------------------------------------------------------------
(* A tick of a loop: read the active version and compare.                  *)

ReadVersion(t) ==
    /\ t \in Loops \cup Consumers /\ Here(t)
    /\ pc[t] = "sleep"
    /\ \E i \in 0..Len(configs) :
          /\ ActiveRow(i)
          /\ seen' = [seen EXCEPT ![t] = VersionOf(i)]
    /\ Goto(t, "compare")
    /\ UNCHANGED <<process, failures, configs, request, manager, last, row, using>>

\* Mutant: a loop does not look at the version again.
NeverChanged(t)   == FALSE
VersionChanged(t) == seen[t] # last[t]

\* _cancel_consume: a loop that consumes awaits the end of that first.
CancelConsume(t) ==
    /\ pc[t] = "compare"
    /\ VersionChanged(t) /\ using[t] # 0
    /\ Goto(t, "invalidate")
    /\ UNCHANGED <<process, failures, configs, request, manager, seen, last, row, using>>

\* Then the cache is invalidated and the provider asked for.
Reconnect(t) ==
    /\ \/ pc[t] = "compare" /\ VersionChanged(t) /\ using[t] = 0
       \/ pc[t] = "invalidate"
    /\ using' = [using EXCEPT ![t] = 0]
    /\ Invalidate
    /\ Goto(t, "close")
    /\ UNCHANGED <<process, failures, configs, request, providers, seen, last, row>>

\* A publisher goes on to the drain, which asks for a provider when rows are
\* pending; a consumer sleeps.
NoChange(t) ==
    /\ pc[t] = "compare"
    /\ ~VersionChanged(t)
    /\ \/ t \in Loops /\ Goto(t, "close") /\ UNCHANGED <<seen, row>>
       \/ Sleep(t)
    /\ UNCHANGED <<process, failures, configs, request, manager, last, using>>

\* A drain request.
DrainRequest(t) ==
    /\ t \in Drains /\ Here(t)
    /\ pc[t] = "sleep"
    /\ Goto(t, "close")
    /\ UNCHANGED <<process, failures, configs, request, manager, seen, last, row, using>>
-----------------------------------------------------------------------------
(* get_event_provider.                                                     *)

\* _close_stale closes one after the other and awaits each.
CloseOne(t) ==
    /\ pc[t] \in {"close", "reclose"}
    /\ \E i \in stale :
          /\ stale' = stale \ {i}
          /\ providers' = [providers EXCEPT ![i].is = "closed"]
    /\ UNCHANGED <<process, failures, configs, request, cache, cacheVer, task>>

NoneStale(t) ==
    /\ pc[t] = "close"
    /\ stale = {}
    /\ Goto(t, "read")
    /\ UNCHANGED <<process, failures, configs, request, manager, seen, last, row, using>>

ReadRow(t) ==
    /\ pc[t] = "read"
    /\ \E i \in 0..Len(configs) : ActiveRow(i) /\ row' = [row EXCEPT ![t] = i]
    /\ Goto(t, "decide")
    /\ UNCHANGED <<process, failures, configs, request, manager, seen, last, using>>

\* What the caller does with the provider before it awaits again: a publisher
\* whose version had changed only notes the version and goes on to the drain.
Receive(t, i) ==
    IF t \in Consumers
    THEN /\ using' = [using EXCEPT ![t] = i]
         /\ Goto(t, "subscribe")
         /\ UNCHANGED last
    ELSE IF t \in Loops /\ VersionChanged(t)
    THEN /\ last' = [last EXCEPT ![t] = seen[t]]
         /\ Goto(t, "compare")
         /\ UNCHANGED using
    ELSE /\ using' = [using EXCEPT ![t] = i]
         /\ Goto(t, "publish")
         /\ UNCHANGED last

\* The cached provider is of the version read.  Mutant: any will do.
CacheHolds(t) == cache # 0
CacheHits(t)  == cache # 0 /\ cacheVer = VersionOf(row[t])

UseCached(t) ==
    /\ pc[t] = "decide"
    /\ CacheHits(t)
    /\ Receive(t, cache)
    /\ UNCHANGED <<process, failures, configs, request, manager, seen, row>>

\* Another version is cached: it is put away and closed first.
Replace(t) ==
    /\ pc[t] = "decide"
    /\ ~CacheHits(t)
    /\ cache # 0
    /\ stale' = PutAway
    /\ cache' = 0
    /\ Goto(t, "reclose")
    /\ UNCHANGED <<process, failures, configs, request, cacheVer, providers, seen, last, row, using>>

\* A provider nobody refers to is garbage, and its number is used again.
Referenced == {cache} \cup stale \cup {using[t] : t \in Tasks}
Fresh      == CHOOSE i \in 1..(Len(providers) + 1) : i \notin Referenced

Building(t) == \/ pc[t] = "decide" /\ cache = 0
               \/ pc[t] = "reclose" /\ stale = {}
Build(t) ==
    LET built == [from |-> row[t], is |-> "open"] IN
    /\ Building(t)
    /\ providers' = IF Fresh > Len(providers) THEN Append(providers, built)
                    ELSE [providers EXCEPT ![Fresh] = built]
    /\ cache' = Fresh
    /\ cacheVer' = VersionOf(row[t])
    /\ Receive(t, Fresh)
    /\ UNCHANGED <<process, failures, configs, request, stale, seen, row>>
-----------------------------------------------------------------------------
\* subscribe and run_consumer, which ends at once if the provider was closed
\* during the topics' creation; the loop notes the version either way.
Subscribe(t) ==
    /\ pc[t] = "subscribe"
    /\ last' = [last EXCEPT ![t] = seen[t]]
    /\ Sleep(t)
    /\ UNCHANGED <<process, failures, configs, request, manager, using>>

\* The batch is published and committed.
EndDrain(t) ==
    /\ pc[t] = "publish"
    /\ using' = [using EXCEPT ![t] = 0]
    /\ Sleep(t)
    /\ UNCHANGED <<process, failures, configs, request, manager, last>>

\* The query, building the provider, subscribing or draining raises: a loop logs
\* it and sleeps, a request fails.  The version is not noted.
TickFails(t) ==
    /\ failures < MaxFailures
    /\ pc[t] \in {"read", "subscribe", "publish"} \/ Building(t)
    /\ failures' = failures + 1
    /\ using' = [using EXCEPT ![t] = 0]
    /\ Sleep(t)
    /\ UNCHANGED <<process, configs, request, manager, last>>

Activate(a) ==
    \/ ReadLatest(a) \/ RetireActive(a) \/ InvalidateApi(a)
    \/ \E status \in {"active", "pending"} : CommitConfig(a, status)

Tick(t) ==
    \/ ReadVersion(t) \/ CancelConsume(t) \/ Reconnect(t) \/ NoChange(t)
    \/ CloseOne(t) \/ NoneStale(t) \/ ReadRow(t) \/ UseCached(t) \/ Replace(t)
    \/ Build(t) \/ Subscribe(t) \/ EndDrain(t)

Next ==
    \/ \E a \in Admins : Activate(a)
    \/ \E t \in Tasks : Tick(t) \/ TickFails(t) \/ DrainRequest(t)

Spec == Init /\ [][Next]_vars

\* The loops tick for ever, and what has begun goes on; that it raises is not
\* asked for.
FairSpec == Spec /\ \A t \in Tasks : WF_vars(Tick(t))
-----------------------------------------------------------------------------
TypeOK ==
    /\ process \in {"api", "worker"}
    /\ failures \in 0..MaxFailures
    /\ configs \in Seq(Config)
    /\ request \in [Admins -> [at : {"none", "retire", "commit", "invalidate"},
                               version : Nat, retires : SUBSET Nat]]
    /\ cache \in Nat /\ cacheVer \in Int
    /\ stale \in SUBSET Nat
    /\ providers \in Seq(Provider)
    /\ pc \in [Tasks -> Pcs]
    /\ seen \in [Tasks -> Int] /\ last \in [Tasks -> Int]
    /\ row \in [Tasks -> Nat] /\ using \in [Tasks -> Nat]

\* The provider in the cache is open: nobody is handed one that is closed or
\* about to be closed ("KafkaEventProvider is closed",
\* providers/kafka_event.py:186), though a task may still hold one that is.
CacheIsOpen ==
    cache # 0 => Open(cache) /\ cache \notin stale

\* A task uses a provider that was built from the row it read, though other
\* tasks replace the cached one while it waits.
UsesTheRowRead ==
    \A t \in Tasks : pc[t] \in {"subscribe", "publish"} =>
        providers[using[t]].from = row[t]

\* Activations and failures come to an end, and then every loop ends up at the
\* active version: a tick that raised is made up for
\* (reconnect on event-provider hot-swap, CHANGELOG.md:40).
LoopsCatchUp ==
    <>[](\A t \in Loops \cup Consumers : Here(t) =>
             \E i \in 0..Len(configs) : ActiveRow(i) /\ last[t] = VersionOf(i))

\* "Subscribe via EventProvider; reconnect when kind=event version changes"
\* (events/consumer.py:45): a consumer that has noted the active version and
\* sleeps consumes from an open provider.
ConsumerIsSubscribed ==
    \A t \in Consumers : pc[t] = "sleep" /\ last[t] # Unset
                           /\ (\A i \in 0..Len(configs) : ActiveRow(i) => VersionOf(i) = last[t])
        => using[t] # 0 /\ Open(using[t])
=============================================================================
