---------------------------- MODULE Subscriptions ----------------------------
(***************************************************************************)
(* Subscriptions and their expiry (subscriptions/service.py): the worker's *)
(* subscription_expiry_loop and the API's enforce-expiry run the same      *)
(* enforce_expiry, which marks subscriptions expired, suspends clients and *)
(* takes their instances down at the infrastructure provider, and commits  *)
(* all of it at the end.  Meanwhile administrators create subscriptions    *)
(* and create, start, suspend and destroy instances (ip_manager/service.py *)
(* 40-141), each of them reading a row, calling the provider, committing.  *)
(*                                                                         *)
(* Rows are read as committed; an UPDATE of a row that another transaction *)
(* has changed waits for that transaction, and when two of them wait for   *)
(* one another the database ends one.  A copy that is set to the value it  *)
(* was loaded with is not written.                                         *)
(***************************************************************************)
EXTENDS Naturals

CONSTANTS
    Subs, Clients, Instances, \* rows there may be
    Windows,                  \* <<starts_at, ends_at>> a subscription may have
    Modes,                    \* teardown modes in use
    Worker, ApiRuns,          \* the worker's loop, and requests that enforce expiry
    Boot,                     \* status the provider gives a new instance
    MaxTime,                  \* bound of the clock
    MaxRequests,              \* bound: requests of administrators
    MaxFaults,                \* bound: provider calls that fail, and aborts
    None

Enforcers == {Worker} \cup ApiRuns
Up        == {"running", "pending"}

ASSUME SubscriptionsAssumption ==
    /\ Windows \subseteq {w \in (0..MaxTime) \X (0..MaxTime) : w[1] < w[2]}
    /\ Modes \subseteq {"SUSPEND", "DESTROY"} /\ Boot \in Up
    /\ Worker \notin ApiRuns
    /\ MaxTime \in Nat /\ MaxRequests \in Nat /\ MaxFaults \in Nat

VARIABLES
    clock,
    subs,     \* subscriptions
    clients,  \* clients.status
    insts,    \* instances
    machines, \* what the provider has of each instance
    events,   \* subscription.expired rows in the outbox, by subscription
    run,      \* enforce_expiry of each enforcer
    reactivating, \* suspended clients that a trading check has found covered
    request,  \* an administrator's request
    requests, \* how many there were
    faults

world == <<clock, subs, clients, insts, machines, events>>
vars  == <<clock, subs, clients, insts, machines, events, run, reactivating, request,
           requests, faults>>

NoSub  == [status |-> "none", client |-> None, starts |-> 0, ends |-> 0,
           mode |-> None, torn |-> FALSE]
NoRow  == [status |-> "none", client |-> None]
Idle   == [at |-> "idle", due |-> {}, cur |-> None, done |-> {}, seen |-> {},
           suspends |-> {}, copy |-> <<>>, todo |-> {}, excused |-> {},
           until |-> 0]
Asleep == [at |-> "idle", kind |-> None, row |-> None, client |-> None, read |-> None]

Init ==
    /\ clock    = 0
    /\ subs     = [s \in Subs |-> NoSub]
    /\ clients  = [c \in Clients |-> "active"]
    /\ insts    = [i \in Instances |-> NoRow]
    /\ machines = [i \in Instances |-> "none"]
    /\ events   = [s \in Subs |-> 0]
    /\ run      = [e \in Enforcers |-> Idle]
    /\ reactivating = {}
    /\ request  = Asleep
    /\ requests = 0
    /\ faults   = 0
-----------------------------------------------------------------------------
(* Who may trade.                                                          *)

Of(c)         == {s \in Subs : subs[s].client = c}
Covers(w)     == w[1] <= clock /\ clock <= w[2]
Covered(c)    == \E s \in Of(c) : /\ subs[s].status = "active" /\ ~subs[s].torn
                                  /\ Covers(<<subs[s].starts, subs[s].ends>>)
MayTrade(c) == IF Of(c) = {} THEN clients[c] # "suspended" ELSE Covered(c)

\* What a run has staged: nobody else can update these rows.
Held(e)       == run[e].done \cup (IF run[e].at \in {"load", "tear"} THEN {run[e].cur} ELSE {})
SubFree(s)    == \A e \in Enforcers : s \notin Held(e)
ClientFree(c) == \A e \in Enforcers : c \notin run[e].suspends

\* x was started, created or made active since a run, or one that overlaps it,
\* began: ghost.
Excuse(X) == run' = [e \in Enforcers |->
                       IF run[e].at = "idle" THEN run[e]
                       ELSE [run[e] EXCEPT !.excused = @ \cup X]]

\* An administrator's request arrives.
Accept == request = Asleep /\ requests < MaxRequests /\ requests' = requests + 1

Reactivate(c) == /\ ClientFree(c)
                 /\ clients' = [clients EXCEPT ![c] = "active"]
                 /\ Excuse({c})

\* assert_trading_allowed, of a client that is suspended and covered; the
\* status is committed later, and another check may be as far by then.
AssertTrading(c) ==
    /\ clients[c] = "suspended" /\ MayTrade(c)
    /\ reactivating' = reactivating \cup {c}
    /\ UNCHANGED <<world, run, request, requests, faults>>

ResumeTrading(c) ==
    /\ c \in reactivating
    /\ reactivating' \in {reactivating, reactivating \ {c}}
    /\ Reactivate(c)
    /\ UNCHANGED <<clock, subs, insts, machines, events, request, requests, faults>>

\* create reads the client, and commits the row and, if the window covers the
\* present, the client's status.
AskToSubscribe(c) ==
    /\ Accept
    /\ \E s \in Subs : subs[s] = NoSub
    /\ request' = [at |-> "save", kind |-> "subscribe", client |-> c, read |-> clients[c],
                   row |-> CHOOSE s \in Subs : subs[s] = NoSub]
    /\ UNCHANGED <<world, run, reactivating, faults>>

Subscribe(w, mode) ==
    LET s == request.row  c == request.client IN
    /\ request.at = "save" /\ request.kind = "subscribe"
    /\ subs' = [subs EXCEPT ![s] = [status |-> "active", client |-> c, starts |-> w[1],
                                    ends |-> w[2], mode |-> mode, torn |-> FALSE]]
    /\ IF Covers(w) /\ request.read = "suspended"
       THEN Reactivate(c) ELSE UNCHANGED <<clients, run>>
    /\ request' = Asleep
    /\ UNCHANGED <<clock, insts, machines, events, reactivating, requests, faults>>
-----------------------------------------------------------------------------
(* enforce_expiry.                                                         *)

\* Mutants: an exclusive bound; a listing that forgets instances which have
\* not started yet.
OverStrictly(s) == subs[s].ends < clock
Over(s)         == subs[s].ends <= clock
Due             == {s \in Subs : subs[s].status = "active" /\ ~subs[s].torn /\ Over(s)}
ListedRunning   == {"running", "suspended"}
Listed          == Up \cup {"suspended"}

Set(e, r) == run' = [run EXCEPT ![e] = r]

Select(e) ==
    /\ run[e].at \in {"idle", "select"}
    /\ run[e].at = "select" \/ Due # {}
    /\ IF Due = {} THEN Set(e, Idle)
       ELSE \E s \in Due :
              Set(e, [Idle EXCEPT !.at = "claim", !.due = Due \ {s}, !.cur = s,
                                  !.excused = UNION {run[f].excused : f \in Enforcers \ {e}}])
    /\ UNCHANGED <<world, reactivating, request, requests, faults>>

\* The subscription is set to expired: the first UPDATE.
Claim(e) ==
    /\ run[e].at = "claim"
    /\ SubFree(run[e].cur)
    /\ Set(e, [run[e] EXCEPT !.at = "load"])
    /\ UNCHANGED <<world, reactivating, request, requests, faults>>

\* The client, read at its first subscription, is suspended; the instances
\* are listed as this transaction sees them.
ToSuspend(e, c) == c \notin run[e].seen /\ clients[c] # "suspended"
OwnView(e, i) == IF i \in DOMAIN run[e].copy /\ run[e].copy[i].now # run[e].copy[i].read
                 THEN run[e].copy[i].now ELSE insts[i].status
Load(e) ==
    LET r == run[e]
        c == subs[r.cur].client
        list == {i \in Instances : insts[i].client = c /\ OwnView(e, i) \in Listed}
        copies == [i \in DOMAIN r.copy \cup list |->
                      IF i \in DOMAIN r.copy THEN r.copy[i]
                      ELSE [read |-> insts[i].status, now |-> insts[i].status]]
    IN
    /\ r.at = "load"
    /\ ToSuspend(e, c) => ClientFree(c)
    /\ Set(e, [r EXCEPT !.at = "tear", !.seen = @ \cup {c}, !.copy = copies,
                        !.suspends = IF ToSuspend(e, c) THEN @ \cup {c} ELSE @,
                        !.todo = list])
    /\ UNCHANGED <<world, reactivating, request, requests, faults>>

\* What the provider makes of a machine, and what the row says of it.  Mutant:
\* the teardown mode itself is written.
Suspended(m) == IF m = "running" THEN "suspended" ELSE m
Started(m)   == IF m = "suspended" THEN "running" ELSE m
ModeItself(mode) == mode
Target(mode) == IF mode = "DESTROY" THEN "destroyed" ELSE "suspended"

\* Docker's destroy_instance logs a failure and goes on: the machine may stay.
Down(m, mode) == IF mode = "DESTROY" THEN {"gone", m} ELSE {Suspended(m)}

TearDown(e, i) ==
    LET r == run[e]  mode == subs[r.cur].mode IN
    /\ r.at = "tear" /\ i \in r.todo
    /\ \E m \in Down(machines[i], mode) : machines' = [machines EXCEPT ![i] = m]
    /\ Set(e, [r EXCEPT !.todo = @ \ {i}, !.copy[i].now = Target(mode)])
    /\ UNCHANGED <<clock, subs, clients, insts, events, reactivating, request, requests, faults>>

TearDownFails(e, i) ==
    /\ run[e].at = "tear" /\ i \in run[e].todo
    /\ faults < MaxFaults
    /\ faults' = faults + 1
    /\ Set(e, [run[e] EXCEPT !.todo = @ \ {i}, !.excused = @ \cup {i}])
    /\ UNCHANGED <<world, reactivating, request, requests>>

NextSub(e) ==
    LET r == [run[e] EXCEPT !.done = @ \cup {run[e].cur}] IN
    /\ r.at = "tear" /\ r.todo = {}
    /\ IF r.due = {} THEN Set(e, [r EXCEPT !.at = "commit", !.cur = None])
       ELSE \E s \in r.due :
              Set(e, [r EXCEPT !.at = "claim", !.cur = s, !.due = @ \ {s}])
    /\ UNCHANGED <<world, reactivating, request, requests, faults>>

\* The one commit of a run.  Mutant: without teardown_completed_at.
ExpiredOnly(sub) == [sub EXCEPT !.status = "expired"]
Expired(sub)     == [sub EXCEPT !.status = "expired", !.torn = TRUE]
WrittenBy(r, i) == IF i \in DOMAIN r.copy /\ r.copy[i].now # r.copy[i].read
                   THEN [insts[i] EXCEPT !.status = r.copy[i].now] ELSE insts[i]
CommitRun(e) ==
    LET r == run[e] IN
    /\ r.at = "commit"
    /\ subs' = [s \in Subs |-> IF s \in r.done THEN Expired(subs[s]) ELSE subs[s]]
    /\ clients' = [c \in Clients |-> IF c \in r.suspends THEN "suspended" ELSE clients[c]]
    /\ insts' = [i \in Instances |-> WrittenBy(r, i)]
    /\ events' = [s \in Subs |-> IF s \in r.done THEN events[s] + 1 ELSE events[s]]
    /\ Set(e, Idle)
    /\ UNCHANGED <<clock, machines, reactivating, request, requests, faults>>

\* The process dies, or a statement of the run raises: nothing is committed.
Abort(e) ==
    /\ run[e].at # "idle"
    /\ faults < MaxFaults
    /\ faults' = faults + 1
    /\ Set(e, Idle)
    /\ UNCHANGED <<world, reactivating, request, requests>>

\* Runs that wait for one another.  Nobody waits for more than one of them,
\* so a set in which each waits and is waited for is made of cycles.
WaitsFor(e, f) ==
    \/ run[e].at = "claim" /\ run[e].cur \in Held(f)
    \/ LET c == subs[run[e].cur].client IN
       run[e].at = "load" /\ ToSuspend(e, c) /\ c \in run[f].suspends
Deadlock(e) ==
    /\ \E S \in SUBSET Enforcers :
          e \in S /\ \A f \in S : \E g, h \in S \ {f} : WaitsFor(f, g) /\ WaitsFor(h, f)
    /\ Set(e, Idle)
    /\ UNCHANGED <<world, reactivating, request, requests, faults>>

\* expire_now reads an active row and sets its end to the present; when that
\* is committed the row may be expired, and enforce_expiry follows.
AskToExpire(e, s) ==
    /\ Accept /\ UNCHANGED request
    /\ subs[s].status = "active"
    /\ run[e].at = "idle"
    /\ Set(e, [Idle EXCEPT !.at = "expire", !.cur = s, !.until = clock])
    /\ UNCHANGED <<world, reactivating, faults>>

ExpireNow(e) ==
    LET s == run[e].cur IN
    /\ run[e].at = "expire" /\ SubFree(s)
    /\ subs' = [subs EXCEPT ![s].ends = run[e].until]
    /\ Set(e, [Idle EXCEPT !.at = "select"])
    /\ UNCHANGED <<clock, clients, insts, machines, events, reactivating, request,
                   requests, faults>>
-----------------------------------------------------------------------------
(* Requests on instances: none of them looks at the client's subscription. *)

Refused(kind, status) == kind # "destroy" /\ status = "destroyed"
Ask(kind, i) ==
    /\ Accept
    /\ insts[i] # NoRow /\ ~Refused(kind, insts[i].status)
    /\ request' = [at |-> "call", kind |-> kind, row |-> i, client |-> insts[i].client,
                   read |-> insts[i].status]
    /\ UNCHANGED <<world, run, reactivating, faults>>

AskToCreate(i, c) ==
    /\ Accept
    /\ insts[i] = NoRow /\ machines[i] = "none"
    /\ request' = [at |-> "call", kind |-> "create", row |-> i, client |-> c, read |-> "none"]
    /\ UNCHANGED <<world, run, reactivating, faults>>

Called(kind, m) ==
    CASE kind = "create"  -> {"running"}
      [] kind = "start"   -> {Started(m)}
      [] kind = "suspend" -> Down(m, "SUSPEND")
      [] kind = "destroy" -> Down(m, "DESTROY")
CallProvider ==
    LET i == request.row IN
    /\ request.at = "call"
    /\ \E m \in Called(request.kind, machines[i]) : machines' = [machines EXCEPT ![i] = m]
    /\ request' = [request EXCEPT !.at = "save"]
    /\ IF request.kind = "start" THEN Excuse({i}) ELSE UNCHANGED run
    /\ UNCHANGED <<clock, subs, clients, insts, events, reactivating, requests, faults>>

Outcome(kind) == CASE kind = "create"  -> {Boot}
                   [] kind = "start"   -> {"running"}
                   [] kind = "suspend" -> {"suspended"}
                   [] kind = "destroy" -> {"destroyed"}
Save(status) ==
    LET i == request.row IN
    /\ request.at = "save" /\ request.kind # "subscribe"
    /\ status \in Outcome(request.kind)
    /\ insts' = IF request.read = status THEN insts
                ELSE [insts EXCEPT ![i] = [status |-> status, client |-> request.client]]
    /\ IF status \in Up THEN Excuse({i}) ELSE UNCHANGED run
    /\ request' = Asleep
    /\ UNCHANGED <<clock, subs, clients, machines, events, reactivating, requests, faults>>

\* The provider or the commit raises, or the process dies.
RequestFails ==
    /\ request # Asleep
    /\ faults < MaxFaults
    /\ faults' = faults + 1
    /\ request' = Asleep
    /\ UNCHANGED <<world, run, reactivating, requests>>

Tick ==
    /\ clock < MaxTime
    /\ clock' = clock + 1
    /\ UNCHANGED <<subs, clients, insts, machines, events, run, reactivating, request,
                   requests, faults>>

Enforce(e) ==
    \/ Select(e) \/ Claim(e) \/ Load(e) \/ NextSub(e) \/ CommitRun(e) \/ ExpireNow(e)
    \/ \E i \in Instances : TearDown(e, i) \/ TearDownFails(e, i)

Next ==
    \/ Tick
    \/ \E e \in Enforcers : Enforce(e) \/ Abort(e) \/ Deadlock(e)
    \/ \E e \in ApiRuns, s \in Subs : AskToExpire(e, s)
    \/ \E w \in Windows, mode \in Modes : Subscribe(w, mode)
    \/ \E c \in Clients : AskToSubscribe(c) \/ AssertTrading(c) \/ ResumeTrading(c)
    \/ \E i \in Instances :
          \/ \E kind \in {"start", "suspend", "destroy"} : Ask(kind, i)
          \/ \E c \in Clients : AskToCreate(i, c)
    \/ CallProvider
    \/ \E status \in Up \cup {"suspended", "destroyed"} : Save(status)
    \/ RequestFails

Spec == Init /\ [][Next]_vars

\* The worker's loop runs for ever; runs of the API that have begun go on;
\* the database ends a deadlock.
FairSpec ==
    /\ Spec
    /\ WF_vars(Enforce(Worker))
    /\ \A e \in ApiRuns : WF_vars(Enforce(e) /\ run[e].at # "idle")
    /\ WF_vars(\E e \in Enforcers : Deadlock(e))
-----------------------------------------------------------------------------
TypeOK ==
    /\ clock \in 0..MaxTime
    /\ subs \in [Subs -> {NoSub} \cup
                    [status : {"active", "expired"}, client : Clients, starts : 0..MaxTime,
                     ends : 0..MaxTime, mode : Modes, torn : BOOLEAN]]
    /\ clients \in [Clients -> {"active", "suspended"}]
    /\ insts \in [Instances -> {NoRow} \cup
                    [status : Up \cup {"suspended", "destroyed"}, client : Clients]]
    /\ machines \in [Instances -> {"none", "running", "suspended", "gone"}]
    /\ events \in [Subs -> Nat]
    /\ \A e \in Enforcers :
         /\ run[e].at \in {"idle", "expire", "select", "claim", "load", "tear", "commit"}
         /\ run[e].due \cup run[e].done \subseteq Subs
         /\ run[e].suspends \subseteq run[e].seen /\ run[e].seen \subseteq Clients
         /\ run[e].todo \subseteq DOMAIN run[e].copy
         /\ DOMAIN run[e].copy \subseteq Instances
    /\ reactivating \subseteq Clients
    /\ request.at \in {"idle", "call", "save"}
    /\ requests \in 0..MaxRequests /\ faults \in 0..MaxFaults

\* A subscription that is over is marked, torn down and announced in one
\* commit, whatever fails or overlaps in between.
ExpiryIsAllOrNothing ==
    \A s \in Subs : /\ subs[s].torn <=> subs[s].status = "expired"
                    /\ subs[s].torn <=> events[s] > 0

\* A teardown that is recorded as complete left the client suspended and no
\* instance running, at the provider or in its row, except those for which
\* the provider's call failed and those that were started, created or made
\* active since the run, or one that overlaps it, began: a run that listed an
\* instance before it was started and destroyed writes back what it knows.
Running(i) == \/ insts[i].status \in Up
              \/ insts[i].status = "suspended" /\ machines[i] = "running"
TornDown(e) ==
    LET done == {subs[s].client : s \in run[e].done} IN
    /\ \A c \in done \ run[e].excused : clients'[c] = "suspended"
    /\ \A i \in Instances \ run[e].excused : insts'[i].client \in done => ~Running(i)'
TeardownIsComplete ==
    [][\A e \in Enforcers : run[e].at = "commit" /\ events' # events /\ run'[e] = Idle
                            => TornDown(e)]_vars

\* "Expire -> client suspend / infra teardown per policy" (ARCHITECTURE.md:113)
\* happens to every subscription in the end, its last moment included, if
\* administrators do not call enforce-expiry for ever: each call may end in
\* another deadlock with the worker.
ExpiryIsEnforced ==
    <>[](\A e \in ApiRuns : run[e] = Idle) =>
        \A s \in Subs : subs[s].status = "active" /\ subs[s].ends <= clock ~> subs[s].torn
=============================================================================
