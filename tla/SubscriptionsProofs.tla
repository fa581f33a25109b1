------------------------ MODULE SubscriptionsProofs ------------------------
(***************************************************************************)
(* Proofs about Subscriptions, for any number of subscriptions, clients,   *)
(* instances, requests, faults and runs of enforce_expiry at once.         *)
(* SubsInv says what a run has before it and behind it while the others,   *)
(* the administrators and the provider go on.                              *)
(***************************************************************************)
EXTENDS Subscriptions, TLAPS

Statuses == Up \cup {"suspended", "destroyed"}
Rows     == [status : Statuses, client : Clients]
SubRows  == [status : {"active", "expired"}, client : Clients, starts : 0..MaxTime,
             ends : 0..MaxTime, mode : Modes, torn : BOOLEAN]

\* What a run keeps.
Frames == [read : Statuses, now : Statuses]
Copies == UNION {[D -> Frames] : D \in SUBSET Instances}
Runs   == [at : {"idle", "expire", "select", "claim", "load", "tear", "commit"},
           due : SUBSET Subs, cur : Subs \cup {None}, done : SUBSET Subs,
           seen : SUBSET Clients, suspends : SUBSET Clients, copy : Copies,
           todo : SUBSET Instances, excused : SUBSET (Clients \cup Instances), until : 0..MaxTime]

Active(e)  == run[e].at \notin {"idle", "expire", "select"}
AtSub(e)   == run[e].at \in {"claim", "load", "tear"}

\* The subscriptions that a run has before it or has dealt with; those whose
\* client and instances it has loaded.
Pending(e) == run[e].due \cup run[e].done \cup (IF AtSub(e) THEN {run[e].cur} ELSE {})
Handled(e) == run[e].done \cup (IF run[e].at = "tear" THEN {run[e].cur} ELSE {})

\* A run goes over subscriptions that exist, one at a time.
RunOK(e) ==
    /\ AtSub(e) => run[e].cur \in Subs
    /\ run[e].at = "expire" => run[e].cur \in Subs /\ subs[run[e].cur].status # "none"
    /\ \A s \in Pending(e) : subs[s].status # "none"
    /\ ~Active(e) => Pending(e) = {}
    /\ run[e].at # "tear" => run[e].todo = {}
    /\ run[e].todo \subseteq DOMAIN run[e].copy
    /\ run[e].suspends \subseteq run[e].seen
    /\ \A s \in Handled(e) : subs[s].client \in run[e].seen

\* What a run has loaded of an instance, and what it will write.
CopyOK(e) ==
    \A i \in DOMAIN run[e].copy :
        /\ insts[i].status # "none" /\ insts[i].client \in run[e].seen
        /\ run[e].copy[i].read \in Listed
        /\ run[e].copy[i].now # run[e].copy[i].read =>
              run[e].copy[i].now \in {"suspended", "destroyed"}
        /\ run[e].copy[i].read = "suspended" /\ Active(e) =>
              insts[i].status \notin Up \/ i \in run[e].excused

\* An instance that a run has suspended, and will write, does not run, unless it
\* was started since: then every run knows.
AllExcuse(i) == \A e \in Enforcers : Active(e) => i \in run[e].excused
StagedOK(e) ==
    Active(e) => \A i \in DOMAIN run[e].copy :
        run[e].copy[i].now = "suspended" /\ run[e].copy[i].read # "suspended" =>
            machines[i] # "running" \/ AllExcuse(i)

\* What a run has dealt with is down, or excused.
DownOK(e, i) ==
    \/ insts[i].client \notin run[e].seen \/ i \in run[e].todo \cup run[e].excused
    \/ i \in DOMAIN run[e].copy /\ run[e].copy[i].now = "destroyed"
    \/ i \in DOMAIN run[e].copy /\ run[e].copy[i].now = "suspended" /\ machines[i] # "running"
    \/ /\ i \notin DOMAIN run[e].copy /\ insts[i].status \notin Up
       /\ insts[i].status = "suspended" => machines[i] # "running"
SuspendOK(e, c) ==
    c \in run[e].seen => c \in run[e].excused \cup run[e].suspends \/ clients[c] = "suspended"
WorkOK(e) ==
    Active(e) => (\A i \in Instances : DownOK(e, i)) /\ (\A c \in Clients : SuspendOK(e, c))

RunInv(e) == RunOK(e) /\ CopyOK(e) /\ StagedOK(e) /\ WorkOK(e)

\* An administrator's request is about a row that is there for it.
Kinds == {"create", "start", "suspend", "destroy"}
RequestOK ==
    \/ request = Asleep
    \/ /\ request \in [at : {"save"}, kind : {"subscribe"}, row : Subs, client : Clients,
                       read : {"active", "suspended"}]
       /\ subs[request.row].status = "none"
    \/ /\ request \in [at : {"call", "save"}, kind : Kinds, row : Instances, client : Clients,
                       read : Statuses \cup {"none"}]
       /\ insts[request.row].status = "none" <=> request.kind = "create"
       /\ request.kind # "create" => insts[request.row].client = request.client
       /\ request.kind = "create" => request.read = "none"
       /\ request.kind = "suspend" /\ request.at = "save" => machines[request.row] # "running"

\* A subscription is announced, once or by several runs, when it has expired.
EventOK(s) ==
    \/ events[s] = 0 /\ subs[s].status # "expired" /\ ~subs[s].torn
    \/ events[s] > 0 /\ subs[s].status = "expired" /\ subs[s].torn

WorldOK ==
    /\ clock \in 0..MaxTime
    /\ subs \in [Subs -> {NoSub} \cup SubRows]
    /\ clients \in [Clients -> {"active", "suspended"}]
    /\ insts \in [Instances -> {NoRow} \cup Rows]
    /\ machines \in [Instances -> {"none", "running", "suspended", "gone"}]
    /\ events \in [Subs -> Nat] /\ reactivating \subseteq Clients
    /\ requests \in 0..MaxRequests /\ faults \in 0..MaxFaults

SubsInv ==
    /\ WorldOK /\ run \in [Enforcers -> Runs] /\ RequestOK
    /\ \A e \in Enforcers : RunInv(e)
    /\ \A s \in Subs : EventOK(s)
-----------------------------------------------------------------------------
(* Rows and runs.                                                          *)

\* A subscription's row and an instance's row, by their status.
LEMMA RowFacts ==
    ASSUME WorldOK
    PROVE  /\ \A s \in Subs : /\ subs[s].status \in {"none", "active", "expired"}
                              /\ subs[s].status # "none" => subs[s] \in SubRows
                              /\ subs[s].status = "none" => subs[s] = NoSub
                              /\ subs[s].torn \in BOOLEAN
           /\ \A i \in Instances : /\ insts[i].status \in Statuses \cup {"none"}
                                   /\ insts[i].status # "none" => insts[i] \in Rows
                                   /\ insts[i].status = "none" => insts[i] = NoRow
<1>1. /\ NoSub.status = "none" /\ NoSub.torn = FALSE
      /\ \A r \in SubRows : r.status \in {"active", "expired"} /\ r.torn \in BOOLEAN
      BY DEF NoSub, SubRows
<1>2. /\ NoRow.status = "none" /\ \A r \in Rows : r.status \in Statuses
      /\ "none" \notin Statuses
      BY DEF NoRow, Rows, Statuses, Up
<1>3. \A s \in Subs : subs[s] \in {NoSub} \cup SubRows
      BY DEF WorldOK
<1>4. \A i \in Instances : insts[i] \in {NoRow} \cup Rows
      BY DEF WorldOK
<1> QED
    BY <1>1, <1>2, <1>3, <1>4

\* Copies are functions over instances.
LEMMA CopyFacts ==
    /\ \A f \in Copies : /\ DOMAIN f \subseteq Instances
                         /\ \A i \in DOMAIN f : f[i].read \in Statuses /\ f[i].now \in Statuses
    /\ \A D \in SUBSET Instances : \A f \in [D -> Frames] : f \in Copies
    /\ <<>> \in Copies /\ DOMAIN <<>> = {}
<1>1. \A f \in Copies : DOMAIN f \subseteq Instances /\ \A i \in DOMAIN f : f[i] \in Frames
  <2> SUFFICES ASSUME NEW f \in Copies
               PROVE  DOMAIN f \subseteq Instances /\ \A i \in DOMAIN f : f[i] \in Frames
      OBVIOUS
  <2>1. PICK D \in SUBSET Instances : f \in [D -> Frames]
        BY DEF Copies
  <2> QED
      BY <2>1
<1>2. \A x \in Frames : x.read \in Statuses /\ x.now \in Statuses
      BY DEF Frames
<1>3. \A D \in SUBSET Instances : \A f \in [D -> Frames] : f \in Copies
      BY DEF Copies
<1>4. DOMAIN <<>> = {} /\ <<>> \in [{} -> Frames]
      OBVIOUS
<1> QED
    BY <1>1, <1>2, <1>3, <1>4

\* An idle run is one.
LEMMA IdleRun == /\ Idle \in Runs /\ Idle.at = "idle" /\ Idle.due = {} /\ Idle.done = {}
                 /\ Idle.seen = {} /\ Idle.suspends = {} /\ Idle.todo = {} /\ Idle.excused = {}
                 /\ DOMAIN Idle.copy = {} /\ Idle.cur = None
BY CopyFacts, SubscriptionsAssumption DEF Idle, Runs

\* One run changes.
LEMMA SetEffect ==
    ASSUME run \in [Enforcers -> Runs], NEW e \in Enforcers, NEW r \in Runs, Set(e, r)
    PROVE  /\ run' \in [Enforcers -> Runs] /\ run'[e] = r
           /\ \A f \in Enforcers \ {e} : run'[f] = run[f]
BY DEF Set

\* What a run keeps, but for what it is excused from.
Same(e) ==
    /\ run'[e].at = run[e].at /\ run'[e].due = run[e].due /\ run'[e].cur = run[e].cur
    /\ run'[e].done = run[e].done /\ run'[e].seen = run[e].seen
    /\ run'[e].suspends = run[e].suspends /\ run'[e].copy = run[e].copy
    /\ run'[e].todo = run[e].todo /\ run[e].excused \subseteq run'[e].excused

LEMMA ExcuseEffect ==
    ASSUME run \in [Enforcers -> Runs], NEW X \in SUBSET (Clients \cup Instances), Excuse(X)
    PROVE  /\ run' \in [Enforcers -> Runs]
           /\ \A e \in Enforcers : Same(e) /\ (Active(e) => X \subseteq run'[e].excused)
<1> DEFINE R(e) == [run[e] EXCEPT !.excused = @ \cup X]
<1>1. \A e \in Enforcers : run[e] \in Runs
      OBVIOUS
<1>2. \A e \in Enforcers :
         /\ R(e) \in Runs /\ R(e).at = run[e].at /\ R(e).due = run[e].due /\ R(e).cur = run[e].cur
         /\ R(e).done = run[e].done /\ R(e).seen = run[e].seen
         /\ R(e).suspends = run[e].suspends /\ R(e).copy = run[e].copy
         /\ R(e).todo = run[e].todo /\ R(e).excused = run[e].excused \cup X
      BY <1>1 DEF Runs
<1>3. run' = [e \in Enforcers |-> IF run[e].at = "idle" THEN run[e] ELSE R(e)]
      BY DEF Excuse
<1> HIDE DEF R
<1>4. \A e \in Enforcers : run'[e] = IF run[e].at = "idle" THEN run[e] ELSE R(e)
      BY <1>3
<1>5. run' \in [Enforcers -> Runs]
      BY <1>1, <1>2, <1>3
<1> QED
    BY <1>2, <1>4, <1>5 DEF Same, Active

-----------------------------------------------------------------------------
(* What a step leaves to a run that it does not touch.                     *)

SubsKept == \A s \in Subs : subs[s].status # "none" =>
                subs'[s].status # "none" /\ subs'[s].client = subs[s].client
RowsKept == \A i \in Instances : insts[i].status # "none" =>
                insts'[i].status # "none" /\ insts'[i].client = insts[i].client

\* A machine that starts is new, or every run knows.
Starts   == \A i \in Instances : machines'[i] = "running" =>
                machines[i] = "running" \/ insts[i].status = "none" \/ AllExcuse(i)'
Spreads  == \A i \in Instances : AllExcuse(i) => AllExcuse(i)'

\* An instance and a client do not come up, but for those a run is excused from.
Calm(e, i) ==
    \/ i \in run'[e].excused
    \/ /\ insts'[i].client = insts[i].client
       /\ insts'[i].status \in Up => insts[i].status \in Up
       /\ insts'[i].status = "suspended" =>
             insts[i].status = "suspended" \/ machines'[i] # "running"
       /\ machines'[i] = "running" => machines[i] = "running" \/ insts'[i].status = "none"
CalmClient(e, c) == clients'[c] \in {"suspended", clients[c]} \/ c \in run'[e].excused
AllCalm(e) == /\ \A i \in Instances : Calm(e, i)
              /\ \A c \in Clients : CalmClient(e, c)

LEMMA KeptInv ==
    ASSUME SubsInv, NEW e \in Enforcers, Same(e), run' \in [Enforcers -> Runs],
           SubsKept, RowsKept, Active(e) => Starts /\ Spreads /\ AllCalm(e)
    PROVE  RunInv(e)'
<1>1. /\ RunOK(e) /\ CopyOK(e) /\ StagedOK(e) /\ WorkOK(e) /\ run[e] \in Runs
      BY DEF SubsInv, RunInv
<1>2. /\ run[e].due \subseteq Subs /\ run[e].done \subseteq Subs
      /\ run[e].copy \in Copies
      BY <1>1 DEF Runs
<1>3. DOMAIN run[e].copy \subseteq Instances
      BY <1>2, CopyFacts
<1>4. Pending(e)' = Pending(e) /\ Handled(e)' = Handled(e) /\ Active(e)' = Active(e)
      BY DEF Same, Pending, Handled, Active, AtSub
<1>5. Pending(e) \subseteq Subs /\ Handled(e) \subseteq Subs
      BY <1>1, <1>2 DEF RunOK, Pending, Handled, AtSub
<1>6. RunOK(e)'
  <2>1. \A s \in Pending(e) : subs'[s].status # "none"
        BY <1>1, <1>5 DEF RunOK, SubsKept
  <2>2. \A s \in Handled(e) : subs'[s].client \in run[e].seen
    <3>1. Handled(e) \subseteq Pending(e)
          BY DEF Handled, Pending, AtSub
    <3> QED
        BY <1>1, <1>5, <3>1 DEF RunOK, SubsKept
  <2>3. run[e].at = "expire" =>
           run[e].cur \in Subs /\ subs'[run[e].cur].status # "none"
        BY <1>1 DEF RunOK, SubsKept
  <2> QED
      BY <1>1, <1>4, <2>1, <2>2, <2>3 DEF RunOK, Same, AtSub
<1>7. CopyOK(e)'
      BY <1>1, <1>3, <1>4 DEF CopyOK, Same, RowsKept, AllCalm, Calm
<1>8. StagedOK(e)'
      BY <1>1, <1>3, <1>4 DEF StagedOK, CopyOK, Same, Starts, Spreads
<1>9. ASSUME NEW i \in Instances, Active(e) PROVE DownOK(e, i)'
  <2>1. DownOK(e, i) /\ Calm(e, i)
        BY <1>1, <1>9 DEF WorkOK, AllCalm
  <2>2. i \in DOMAIN run[e].copy => insts'[i].status # "none"
        BY <1>1, <1>9 DEF CopyOK, RowsKept
  <2> QED
      BY <2>1, <2>2 DEF DownOK, Calm, Same
<1>10. ASSUME NEW c \in Clients, Active(e) PROVE SuspendOK(e, c)'
      BY <1>1, <1>10 DEF WorkOK, AllCalm, CalmClient, SuspendOK, Same
<1> QED
    BY <1>4, <1>6, <1>7, <1>8, <1>9, <1>10 DEF RunInv, WorkOK

\* The subscriptions' events.
LEMMA EventsKept ==
    ASSUME SubsInv, NEW s \in Subs, events'[s] = events[s],
           subs'[s].status = subs[s].status, subs'[s].torn = subs[s].torn
    PROVE  EventOK(s)'
BY DEF SubsInv, EventOK

\* The request, when nobody takes its row away.
LEMMA RequestKept ==
    ASSUME RequestOK, request' = request,
           \A s \in Subs : subs[s].status = "none" => subs'[s].status = "none",
           \A i \in Instances : /\ insts'[i].client = insts[i].client
                                /\ insts[i].status = "none" <=> insts'[i].status = "none"
                                /\ machines'[i] = "running" => machines[i] = "running"
    PROVE  RequestOK'
<1>1. CASE request = Asleep
      BY <1>1 DEF RequestOK
<1>2. CASE /\ request \in [at : {"save"}, kind : {"subscribe"}, row : Subs, client : Clients,
                           read : {"active", "suspended"}]
           /\ subs[request.row].status = "none"
  <2>1. request.row \in Subs
        BY <1>2
  <2> QED
      BY <1>2, <2>1 DEF RequestOK
<1>3. CASE /\ request \in [at : {"call", "save"}, kind : Kinds, row : Instances,
                           client : Clients, read : Statuses \cup {"none"}]
           /\ insts[request.row].status = "none" <=> request.kind = "create"
           /\ request.kind # "create" => insts[request.row].client = request.client
           /\ request.kind = "create" => request.read = "none"
           /\ request.kind = "suspend" /\ request.at = "save" => machines[request.row] # "running"
  <2>1. request.row \in Instances
        BY <1>3
  <2> QED
      BY <1>3, <2>1 DEF RequestOK
<1> QED
    BY <1>1, <1>2, <1>3 DEF RequestOK

-----------------------------------------------------------------------------
(* The clock and the administrators: a step of theirs leaves both runs as   *)
(* they are, but for what it excuses them from.                             *)

LEMMA OutsideInv ==
    ASSUME SubsInv, WorldOK', RequestOK', run' \in [Enforcers -> Runs],
           \A e \in Enforcers : Same(e), SubsKept, RowsKept, Starts,
           \A e \in Enforcers : Active(e) => AllCalm(e),
           events' = events,
           \A s \in Subs :
              \/ subs'[s].status = subs[s].status /\ subs'[s].torn = subs[s].torn
              \/ subs[s].status = "none" /\ subs'[s].status = "active" /\ ~subs'[s].torn
    PROVE  SubsInv'
<1>1. Spreads
      BY DEF Spreads, AllExcuse, Same, Active
<1>2. \A e \in Enforcers : RunInv(e)'
      BY <1>1, KeptInv
<1>3. ASSUME NEW s \in Subs PROVE EventOK(s)'
  <2>1. CASE subs'[s].status = subs[s].status /\ subs'[s].torn = subs[s].torn
        BY <2>1, EventsKept
  <2>2. CASE subs[s].status = "none" /\ subs'[s].status = "active" /\ ~subs'[s].torn
    <3>1. EventOK(s)
          BY DEF SubsInv
    <3> QED
        BY <2>2, <3>1 DEF EventOK
  <2> QED
      BY <2>1, <2>2
<1> QED
    BY <1>2, <1>3 DEF SubsInv

LEMMA UnchangedRuns ==
    ASSUME run' = run
    PROVE  \A e \in Enforcers : Same(e)
BY DEF Same

LEMMA CalmWorld ==
    ASSUME UNCHANGED <<subs, clients, insts, machines>>
    PROVE  /\ SubsKept /\ RowsKept /\ Starts /\ \A e \in Enforcers : AllCalm(e)
BY DEF SubsKept, RowsKept, Starts, AllCalm, Calm, CalmClient

\* A request arrives or fails, or time passes.
LEMMA AskInv ==
    ASSUME SubsInv,
           \/ Tick \/ RequestFails
           \/ \E c \in Clients : AskToSubscribe(c)
           \/ \E i \in Instances, kind \in {"start", "suspend", "destroy"} : Ask(kind, i)
           \/ \E i \in Instances, c \in Clients : AskToCreate(i, c)
    PROVE  SubsInv'
<1>1. /\ WorldOK /\ RequestOK /\ run \in [Enforcers -> Runs]
      /\ MaxTime \in Nat /\ MaxRequests \in Nat /\ MaxFaults \in Nat
      BY SubscriptionsAssumption DEF SubsInv
<1>2. UNCHANGED <<subs, clients, insts, machines, events, run, reactivating>>
      BY DEF Tick, RequestFails, AskToSubscribe, Ask, AskToCreate, world
<1>3. /\ clock' \in 0..MaxTime /\ requests' \in 0..MaxRequests /\ faults' \in 0..MaxFaults
      BY <1>1 DEF WorldOK, Tick, RequestFails, AskToSubscribe, Ask, AskToCreate, Accept, world
<1>4. WorldOK'
      BY <1>1, <1>2, <1>3 DEF WorldOK
<1>5. RequestOK'
  <2>1. CASE Tick
        BY <1>1, <1>2, <2>1, RequestKept DEF Tick
  <2>2. CASE RequestFails
        BY <2>2 DEF RequestFails, RequestOK
  <2>3. ASSUME NEW c \in Clients, AskToSubscribe(c) PROVE RequestOK'
    <3> DEFINE s == CHOOSE s \in Subs : subs[s] = NoSub
    <3>1. s \in Subs /\ subs[s] = NoSub
          BY <2>3 DEF AskToSubscribe
    <3>2. request' = [at |-> "save", kind |-> "subscribe", client |-> c,
                      read |-> clients[c], row |-> s]
          BY <2>3 DEF AskToSubscribe
    <3>3. clients[c] \in {"active", "suspended"}
          BY <1>1 DEF WorldOK
    <3> HIDE DEF s
    <3> QED
        BY <1>2, <3>1, <3>2, <3>3 DEF RequestOK, NoSub
  <2>4. ASSUME NEW i \in Instances, NEW kind \in {"start", "suspend", "destroy"}, Ask(kind, i)
        PROVE  RequestOK'
    <3>1. request' = [at |-> "call", kind |-> kind, row |-> i, client |-> insts[i].client,
                      read |-> insts[i].status]
          BY <2>4 DEF Ask
    <3>2. insts[i] # NoRow
          BY <2>4 DEF Ask
    <3>3. insts[i].status # "none" /\ insts[i] \in Rows
          BY <1>1, <3>2, RowFacts
    <3>4. insts[i].client \in Clients /\ insts[i].status \in Statuses
          BY <3>3 DEF Rows
    <3> QED
        BY <1>2, <3>1, <3>3, <3>4 DEF RequestOK, Kinds
  <2>5. ASSUME NEW i \in Instances, NEW c \in Clients, AskToCreate(i, c) PROVE RequestOK'
    <3>1. request' = [at |-> "call", kind |-> "create", row |-> i, client |-> c,
                      read |-> "none"]
          BY <2>5 DEF AskToCreate
    <3>2. insts[i].status = "none"
          BY <2>5 DEF AskToCreate, NoRow
    <3> QED
        BY <1>2, <3>1, <3>2 DEF RequestOK, Kinds
  <2> QED
      BY <2>1, <2>2, <2>3, <2>4, <2>5
<1> QED
    BY <1>1, <1>2, <1>4, <1>5, UnchangedRuns, CalmWorld, OutsideInv

\* A client may trade again: the runs are excused from it.
LEMMA ReactivateEffect ==
    ASSUME SubsInv, NEW c \in Clients, Reactivate(c)
    PROVE  /\ run' \in [Enforcers -> Runs] /\ clients' \in [Clients -> {"active", "suspended"}]
           /\ \A e \in Enforcers : Same(e)
           /\ \A e \in Enforcers : Active(e) => \A b \in Clients : CalmClient(e, b)
<1>1. /\ run \in [Enforcers -> Runs] /\ clients \in [Clients -> {"active", "suspended"}]
      /\ clients' = [clients EXCEPT ![c] = "active"]
      BY DEF SubsInv, WorldOK, Reactivate
<1>2. /\ run' \in [Enforcers -> Runs]
      /\ \A e \in Enforcers : Same(e) /\ (Active(e) => {c} \subseteq run'[e].excused)
  <2>1. Excuse({c}) /\ {c} \in SUBSET (Clients \cup Instances)
        BY DEF Reactivate
  <2> QED
      BY <1>1, <2>1, ExcuseEffect
<1> QED
    BY <1>1, <1>2 DEF CalmClient

LEMMA AssertInv ==
    ASSUME SubsInv, NEW c \in Clients, AssertTrading(c)
    PROVE  SubsInv'
<1>1. /\ reactivating' = reactivating \cup {c}
      /\ UNCHANGED <<clock, subs, clients, insts, machines, events, run, request,
                     requests, faults>>
      BY DEF AssertTrading, world
<1>2. WorldOK /\ RequestOK /\ run \in [Enforcers -> Runs]
      BY DEF SubsInv
<1>3. WorldOK'
      BY <1>1, <1>2 DEF WorldOK
<1>4. RequestOK'
      BY <1>1, <1>2, RequestKept
<1> QED
    BY <1>1, <1>2, <1>3, <1>4, UnchangedRuns, CalmWorld, OutsideInv

LEMMA ResumeInv ==
    ASSUME SubsInv, NEW c \in Clients, ResumeTrading(c)
    PROVE  SubsInv'
<1>1. /\ Reactivate(c)
      /\ reactivating' \in {reactivating, reactivating \ {c}}
      /\ UNCHANGED <<clock, subs, insts, machines, events, request, requests, faults>>
      BY DEF ResumeTrading
<1>2. WorldOK /\ RequestOK
      BY DEF SubsInv
<1>3. WorldOK'
      BY <1>1, <1>2, ReactivateEffect DEF WorldOK
<1>4. RequestOK'
      BY <1>1, <1>2, RequestKept
<1>5. SubsKept /\ RowsKept /\ Starts
      BY <1>1 DEF SubsKept, RowsKept, Starts
<1>6. \A e \in Enforcers : Active(e) => AllCalm(e)
      BY <1>1, ReactivateEffect DEF AllCalm, Calm
<1> QED
    BY <1>1, <1>3, <1>4, <1>5, <1>6, ReactivateEffect, OutsideInv

LEMMA SubscribeInv ==
    ASSUME SubsInv, NEW w \in Windows, NEW mode \in Modes, Subscribe(w, mode)
    PROVE  SubsInv'
<1> DEFINE s == request.row
           c == request.client
           r == [status |-> "active", client |-> c, starts |-> w[1], ends |-> w[2],
                 mode |-> mode, torn |-> FALSE]
<1>1. /\ WorldOK /\ RequestOK /\ run \in [Enforcers -> Runs]
      BY DEF SubsInv
<1>2. /\ s \in Subs /\ c \in Clients /\ subs[s].status = "none"
      BY <1>1 DEF Subscribe, RequestOK, Asleep, Kinds
<1>3. /\ subs' = [subs EXCEPT ![s] = r] /\ request' = Asleep
      /\ Reactivate(c) \/ UNCHANGED <<clients, run>>
      /\ UNCHANGED <<clock, insts, machines, events, reactivating, requests, faults>>
      BY DEF Subscribe
<1>4. r \in SubRows /\ r.status = "active" /\ r.torn = FALSE
  <2>1. w \in (0..MaxTime) \X (0..MaxTime)
        BY SubscriptionsAssumption
  <2>2. w[1] \in 0..MaxTime /\ w[2] \in 0..MaxTime
        BY <2>1
  <2> QED
      BY <1>2, <2>2 DEF SubRows
<1> HIDE DEF r
<1>5. /\ run' \in [Enforcers -> Runs] /\ clients' \in [Clients -> {"active", "suspended"}]
      /\ \A e \in Enforcers : Same(e)
      /\ \A e \in Enforcers : Active(e) => \A b \in Clients : CalmClient(e, b)
  <2>1. CASE Reactivate(c)
        BY <1>2, <2>1, ReactivateEffect
  <2>2. CASE UNCHANGED <<clients, run>>
        BY <1>1, <2>2, UnchangedRuns DEF CalmClient, WorldOK
  <2> QED
      BY <1>3, <2>1, <2>2
<1>6. /\ subs' \in [Subs -> {NoSub} \cup SubRows] /\ subs'[s] = r
      /\ \A x \in Subs \ {s} : subs'[x] = subs[x]
      BY <1>1, <1>2, <1>3, <1>4 DEF WorldOK
<1> HIDE DEF s, c
<1>7. WorldOK'
      BY <1>1, <1>3, <1>5, <1>6 DEF WorldOK
<1>8. RequestOK'
      BY <1>3 DEF RequestOK
<1>9. SubsKept /\ RowsKept /\ Starts
      BY <1>2, <1>3, <1>6 DEF SubsKept, RowsKept, Starts
<1>10. \A e \in Enforcers : Active(e) => AllCalm(e)
      BY <1>3, <1>5 DEF AllCalm, Calm
<1>11. \A x \in Subs :
          \/ subs'[x].status = subs[x].status /\ subs'[x].torn = subs[x].torn
          \/ subs[x].status = "none" /\ subs'[x].status = "active" /\ ~subs'[x].torn
      BY <1>2, <1>4, <1>6
<1> QED
    BY <1>3, <1>5, <1>7, <1>8, <1>9, <1>10, <1>11, OutsideInv

\* The provider is called: what starts is new, or the runs are excused from it.
LEMMA CallInv ==
    ASSUME SubsInv, CallProvider
    PROVE  SubsInv'
<1> DEFINE i == request.row
<1>1. /\ WorldOK /\ RequestOK /\ run \in [Enforcers -> Runs]
      BY DEF SubsInv
<1>2. /\ request \in [at : {"call", "save"}, kind : Kinds, row : Instances, client : Clients,
                      read : Statuses \cup {"none"}]
      /\ request.at = "call"
      /\ insts[i].status = "none" <=> request.kind = "create"
      /\ request.kind # "create" => insts[i].client = request.client
      /\ request.kind = "create" => request.read = "none"
      BY <1>1 DEF CallProvider, RequestOK, Asleep
<1>3. PICK m \in Called(request.kind, machines[i]) : machines' = [machines EXCEPT ![i] = m]
      BY DEF CallProvider
<1>4. /\ request' = [request EXCEPT !.at = "save"]
      /\ (IF request.kind = "start" THEN Excuse({i}) ELSE UNCHANGED run)
      /\ UNCHANGED <<clock, subs, clients, insts, events, reactivating, requests, faults>>
      BY DEF CallProvider
<1>5. i \in Instances /\ request.kind \in Kinds
      BY <1>2
<1>6. machines[i] \in {"none", "running", "suspended", "gone"}
      BY <1>1, <1>5 DEF WorldOK
<1>7. /\ m \in {"none", "running", "suspended", "gone"}
      /\ m = "running" => request.kind \in {"create", "start"} \/ machines[i] = "running"
      /\ request.kind = "suspend" => m # "running"
      BY <1>3, <1>5, <1>6 DEF Called, Kinds, Down, Suspended, Started
<1>8. /\ machines' \in [Instances -> {"none", "running", "suspended", "gone"}]
      /\ machines'[i] = m /\ \A j \in Instances \ {i} : machines'[j] = machines[j]
      BY <1>1, <1>3, <1>5, <1>7 DEF WorldOK
<1>9. /\ run' \in [Enforcers -> Runs]
      /\ \A e \in Enforcers : Same(e)
      /\ request.kind = "start" => \A e \in Enforcers : Active(e) => i \in run'[e].excused
  <2>1. CASE request.kind = "start"
    <3>1. Excuse({i}) /\ {i} \in SUBSET (Clients \cup Instances)
          BY <1>4, <1>5, <2>1
    <3> HIDE DEF i
    <3> QED
        BY <1>1, <3>1, ExcuseEffect
  <2>2. CASE request.kind # "start"
        BY <1>1, <1>4, <2>2, UnchangedRuns
  <2> QED
      BY <2>1, <2>2
<1>10. RequestOK'
  <2>1. /\ request' \in [at : {"call", "save"}, kind : Kinds, row : Instances,
                         client : Clients, read : Statuses \cup {"none"}]
        /\ request'.row = i /\ request'.kind = request.kind
        /\ request'.client = request.client /\ request'.read = request.read
        BY <1>2, <1>4
  <2> HIDE DEF i
  <2> QED
      BY <1>2, <1>4, <1>7, <1>8, <2>1 DEF RequestOK
<1> HIDE DEF i
<1>11. WorldOK'
      BY <1>1, <1>4, <1>8 DEF WorldOK
<1>12. SubsKept /\ RowsKept
      BY <1>4 DEF SubsKept, RowsKept
<1>13. Starts
      BY <1>2, <1>7, <1>8, <1>9 DEF Starts, AllExcuse, Same, Active
<1>14. \A e \in Enforcers : Active(e) => AllCalm(e)
      BY <1>2, <1>4, <1>7, <1>8, <1>9 DEF AllCalm, Calm, CalmClient
<1> QED
    BY <1>4, <1>9, <1>10, <1>11, <1>12, <1>13, <1>14, OutsideInv

\* The row is saved: what comes up, the runs are excused from.
LEMMA SaveInv ==
    ASSUME SubsInv, NEW status, Save(status)
    PROVE  SubsInv'
<1> DEFINE i == request.row
           x == [status |-> status, client |-> request.client]
<1>1. /\ WorldOK /\ RequestOK /\ run \in [Enforcers -> Runs]
      BY DEF SubsInv
<1>2. /\ request.at = "save" /\ request.kind # "subscribe" /\ status \in Outcome(request.kind)
      /\ insts' = IF request.read = status THEN insts ELSE [insts EXCEPT ![i] = x]
      /\ IF status \in Up THEN Excuse({i}) ELSE UNCHANGED run
      /\ request' = Asleep
      /\ UNCHANGED <<clock, subs, clients, machines, events, reactivating, requests, faults>>
      BY DEF Save
<1>3. /\ request.kind \in Kinds /\ i \in Instances /\ request.client \in Clients
      /\ insts[i].status = "none" <=> request.kind = "create"
      /\ request.kind # "create" => insts[i].client = request.client
      /\ request.kind = "create" => request.read = "none"
      /\ request.kind = "suspend" => machines[i] # "running"
      BY <1>1, <1>2 DEF RequestOK, Asleep
<1>4. /\ status \in Statuses /\ Boot \in Up
      /\ request.kind = "create" => status \in Up
      /\ status = "suspended" => request.kind = "suspend"
      BY <1>2, <1>3, SubscriptionsAssumption DEF Outcome, Kinds, Statuses, Up
<1>5. x \in Rows /\ x.status = status /\ x.client = request.client /\ status # "none"
      BY <1>3, <1>4 DEF Rows, Statuses, Up
<1> HIDE DEF x
<1>6. /\ insts' \in [Instances -> {NoRow} \cup Rows]
      /\ insts' = insts \/ insts'[i] = x
      /\ \A j \in Instances \ {i} : insts'[j] = insts[j]
      BY <1>1, <1>2, <1>3, <1>5 DEF WorldOK
<1>7. /\ run' \in [Enforcers -> Runs]
      /\ \A e \in Enforcers : Same(e)
      /\ status \in Up => \A e \in Enforcers : Active(e) => i \in run'[e].excused
  <2>1. CASE status \in Up
    <3>1. Excuse({i}) /\ {i} \in SUBSET (Clients \cup Instances)
          BY <1>2, <1>3, <2>1
    <3> HIDE DEF i
    <3> QED
        BY <1>1, <3>1, ExcuseEffect
  <2>2. CASE status \notin Up
        BY <1>1, <1>2, <2>2, UnchangedRuns
  <2> QED
      BY <2>1, <2>2
<1> HIDE DEF i
<1>8. WorldOK'
      BY <1>1, <1>2, <1>6 DEF WorldOK
<1>9. RequestOK'
      BY <1>2 DEF RequestOK
<1>10. SubsKept /\ RowsKept /\ Starts
      BY <1>2, <1>3, <1>5, <1>6 DEF SubsKept, RowsKept, Starts
<1>11. \A e \in Enforcers : Active(e) => AllCalm(e)
  <2> SUFFICES ASSUME NEW e \in Enforcers, Active(e), NEW j \in Instances PROVE Calm(e, j)
      BY <1>2 DEF AllCalm, CalmClient
  <2>1. CASE insts'[j] = insts[j]
        BY <1>2, <2>1 DEF Calm
  <2>2. CASE j = i /\ insts'[i] = x
    <3>1. CASE status \in Up
          BY <1>7, <2>2, <3>1 DEF Calm
    <3>2. CASE status \notin Up
          BY <1>2, <1>3, <1>4, <1>5, <2>2, <3>2 DEF Calm
    <3> QED
        BY <3>1, <3>2
  <2> QED
      BY <1>6, <2>1, <2>2
<1> QED
    BY <1>2, <1>7, <1>8, <1>9, <1>10, <1>11, OutsideInv

-----------------------------------------------------------------------------
(* enforce_expiry: a step of a run.  Until the commit only machines change, *)
(* and none of them starts.                                                *)

\* What a run's type says of its fields.
LEMMA RunFacts ==
    ASSUME run \in [Enforcers -> Runs], NEW e \in Enforcers
    PROVE  /\ run[e] \in Runs /\ run[e].due \subseteq Subs /\ run[e].done \subseteq Subs
           /\ run[e].seen \subseteq Clients /\ run[e].suspends \subseteq Clients
           /\ run[e].todo \subseteq Instances /\ run[e].excused \subseteq Clients \cup Instances
           /\ run[e].copy \in Copies /\ DOMAIN run[e].copy \subseteq Instances
           /\ \A i \in DOMAIN run[e].copy : /\ run[e].copy[i].read \in Statuses
                                           /\ run[e].copy[i].now \in Statuses
<1>1. run[e] \in Runs
      OBVIOUS
<1>2. /\ run[e].due \subseteq Subs /\ run[e].done \subseteq Subs
      /\ run[e].seen \subseteq Clients /\ run[e].suspends \subseteq Clients
      /\ run[e].todo \subseteq Instances /\ run[e].excused \subseteq Clients \cup Instances
      /\ run[e].copy \in Copies
      BY <1>1 DEF Runs
<1> QED
    BY <1>1, <1>2, CopyFacts

\* A run's record is another, and its claims hold of it.
LEMMA RunStepInv ==
    ASSUME SubsInv, NEW e \in Enforcers, NEW r \in Runs, Set(e, r),
           UNCHANGED <<clock, subs, clients, insts, events, reactivating, request>>,
           requests' \in 0..MaxRequests, faults' \in 0..MaxFaults,
           machines' \in [Instances -> {"none", "running", "suspended", "gone"}],
           \A i \in Instances : machines'[i] = "running" => machines[i] = "running",
           \A f \in Enforcers \ {e} : Active(f) => Spreads,
           RunInv(e)'
    PROVE  SubsInv'
<1>1. /\ WorldOK /\ RequestOK /\ run \in [Enforcers -> Runs]
      BY DEF SubsInv
<1>2. /\ run' \in [Enforcers -> Runs] /\ \A f \in Enforcers \ {e} : run'[f] = run[f]
      BY <1>1, SetEffect
<1>3. WorldOK'
      BY <1>1 DEF WorldOK
<1>4. RequestOK'
      BY <1>1, RequestKept
<1>5. SubsKept /\ RowsKept /\ Starts
      BY DEF SubsKept, RowsKept, Starts
<1>6. \A f \in Enforcers : AllCalm(f)
      BY DEF AllCalm, Calm, CalmClient
<1>7. \A f \in Enforcers \ {e} : Same(f)
      BY <1>2 DEF Same
<1>8. \A f \in Enforcers \ {e} : RunInv(f)'
      BY <1>2, <1>5, <1>6, <1>7, KeptInv
<1>9. \A s \in Subs : EventOK(s)'
      BY EventsKept
<1> QED
    BY <1>2, <1>3, <1>4, <1>8, <1>9 DEF SubsInv

\* A run that stays awake and forgets no excuse hides none.
LEMMA SpreadsOn ==
    ASSUME NEW e \in Enforcers, \A f \in Enforcers \ {e} : run'[f] = run[f],
           Active(e)' => Active(e) /\ run[e].excused \subseteq run'[e].excused
    PROVE  Spreads
BY DEF Spreads, AllExcuse, Active

\* A run that has nothing before it claims nothing.
Rests(r) == /\ r.at \in {"idle", "expire", "select"} /\ r.due = {} /\ r.done = {} /\ r.seen = {}
            /\ r.suspends = {} /\ r.todo = {} /\ DOMAIN r.copy = {}

LEMMA RestInv ==
    ASSUME NEW e \in Enforcers, Rests(run'[e]),
           run'[e].at = "expire" => run'[e].cur \in Subs /\ subs'[run'[e].cur].status # "none"
    PROVE  RunInv(e)' /\ Pending(e)' = {} /\ ~Active(e)'
<1>1. Pending(e)' = {} /\ Handled(e)' = {} /\ ~Active(e)'
      BY DEF Rests, Pending, Handled, Active, AtSub
<1>2. RunOK(e)'
      BY <1>1 DEF RunOK, Rests, AtSub
<1> QED
    BY <1>1, <1>2 DEF RunInv, CopyOK, StagedOK, WorkOK, Rests

\* The run ends without a commit.
LEMMA StopInv ==
    ASSUME SubsInv, NEW e \in Enforcers, Abort(e) \/ Deadlock(e)
    PROVE  SubsInv'
<1>1. /\ Set(e, Idle)
      /\ UNCHANGED <<clock, subs, clients, insts, events, reactivating, request, requests>>
      /\ machines' = machines
      BY DEF Abort, Deadlock, world
<1>2. /\ run \in [Enforcers -> Runs] /\ faults \in 0..MaxFaults /\ MaxFaults \in Nat
      /\ requests \in 0..MaxRequests
      /\ machines \in [Instances -> {"none", "running", "suspended", "gone"}]
      BY SubscriptionsAssumption DEF SubsInv, WorldOK
<1>3. faults' \in 0..MaxFaults
      BY <1>2 DEF Abort, Deadlock
<1>4. run'[e] = Idle /\ \A f \in Enforcers \ {e} : run'[f] = run[f]
      BY <1>1, <1>2, IdleRun, SetEffect
<1>5. RunInv(e)' /\ Pending(e)' = {} /\ ~Active(e)'
      BY <1>4, IdleRun, RestInv DEF Rests
<1>6. Spreads
      BY <1>4, <1>5, SpreadsOn
<1> QED
    BY <1>1, <1>2, <1>3, <1>5, <1>6, IdleRun, RunStepInv

\* A run begins, with what the other run is excused from.
LEMMA SelectInv ==
    ASSUME SubsInv, NEW e \in Enforcers, Select(e)
    PROVE  SubsInv'
<1>1. /\ run \in [Enforcers -> Runs] /\ faults \in 0..MaxFaults /\ requests \in 0..MaxRequests
      /\ machines \in [Instances -> {"none", "running", "suspended", "gone"}]
      /\ ~Active(e)
      BY DEF SubsInv, WorldOK, Select, Active
<1>2. /\ UNCHANGED <<clock, subs, clients, insts, events, reactivating, request, requests>>
      /\ machines' = machines /\ faults' = faults
      BY DEF Select, world
<1>3. CASE Set(e, Idle)
  <2>1. run'[e] = Idle /\ \A f \in Enforcers \ {e} : run'[f] = run[f]
        BY <1>1, <1>3, IdleRun, SetEffect
  <2>2. RunInv(e)' /\ Pending(e)' = {} /\ ~Active(e)'
        BY <2>1, IdleRun, RestInv DEF Rests
  <2>3. Spreads
        BY <2>1, <2>2, SpreadsOn
  <2> QED
      BY <1>1, <1>2, <1>3, <2>2, <2>3, IdleRun, RunStepInv
<1> DEFINE X == UNION {run[f].excused : f \in Enforcers \ {e}}
           New(s) == [Idle EXCEPT !.at = "claim", !.due = Due \ {s}, !.cur = s, !.excused = X]
<1>4. ASSUME NEW s \in Due, Set(e, New(s)) PROVE SubsInv'
  <2>1. Due \subseteq Subs /\ \A x \in Due : subs[x].status = "active"
        BY DEF Due
  <2>2. X \subseteq Clients \cup Instances
    <3>1. \A f \in Enforcers : run[f].excused \subseteq Clients \cup Instances
      <4>1. \A f \in Enforcers : run[f] \in Runs
            BY <1>1
      <4> QED
          BY <4>1 DEF Runs
    <3> QED
        BY <3>1
  <2>3. \A f \in Enforcers \ {e} : run[f].excused \subseteq X
        OBVIOUS
  <2> DEFINE r == New(s)
  <2> HIDE DEF X
  <2>4. /\ r.at = "claim" /\ r.due = Due \ {s} /\ r.cur = s /\ r.excused = X
        /\ r.done = {} /\ r.seen = {} /\ r.suspends = {} /\ r.todo = {} /\ r.copy = <<>>
        BY DEF Idle
  <2>5. r \in Runs
    <3>1. <<>> \in Copies /\ 0 \in 0..MaxTime
          BY CopyFacts, SubscriptionsAssumption
    <3> HIDE DEF Due
    <3> QED
        BY <2>1, <2>2, <3>1 DEF Runs, Idle
  <2> HIDE DEF New
  <2>6. run'[e] = r /\ \A f \in Enforcers \ {e} : run'[f] = run[f]
        BY <1>1, <1>4, <2>5, SetEffect
  <2>7. Pending(e)' = Due /\ Handled(e)' = {}
        BY <2>4, <2>6 DEF Pending, Handled, AtSub
  <2>8. RunOK(e)'
    <3>1. \A x \in Due : subs'[x].status # "none"
          BY <1>2, <2>1
    <3> QED
        BY <2>1, <2>4, <2>6, <2>7, <3>1 DEF RunOK, AtSub, Active
  <2>9. CopyOK(e)' /\ StagedOK(e)' /\ WorkOK(e)'
    <3>1. DOMAIN run'[e].copy = {} /\ run'[e].seen = {}
          BY <2>4, <2>6, CopyFacts
    <3> QED
        BY <3>1 DEF CopyOK, StagedOK, WorkOK, DownOK, SuspendOK
  <2>10. ASSUME NEW f \in Enforcers \ {e}, Active(f) PROVE Spreads
        BY <2>3, <2>4, <2>6, <2>10 DEF Spreads, AllExcuse, Active
  <2> QED
      BY <1>1, <1>2, <1>4, <2>1, <2>5, <2>7, <2>8, <2>9, <2>10, RunStepInv DEF RunInv
<1> QED
    BY <1>3, <1>4 DEF Select

\* A subscription is marked expired, and nobody else can mark it.
LEMMA ClaimInv ==
    ASSUME SubsInv, NEW e \in Enforcers, Claim(e)
    PROVE  SubsInv'
<1> DEFINE r == [run[e] EXCEPT !.at = "load"]
<1>1. /\ run \in [Enforcers -> Runs] /\ faults \in 0..MaxFaults /\ requests \in 0..MaxRequests
      /\ machines \in [Instances -> {"none", "running", "suspended", "gone"}]
      /\ run[e] \in Runs /\ RunInv(e)
      BY DEF SubsInv, WorldOK
<1>2. /\ UNCHANGED <<clock, subs, clients, insts, events, reactivating, request, requests>>
      /\ machines' = machines /\ faults' = faults
      /\ run[e].at = "claim" /\ Set(e, r)
      BY DEF Claim, world
<1>3. /\ r \in Runs /\ r.at = "load" /\ r.due = run[e].due /\ r.cur = run[e].cur
      /\ r.done = run[e].done /\ r.seen = run[e].seen /\ r.suspends = run[e].suspends
      /\ r.copy = run[e].copy /\ r.todo = run[e].todo /\ r.excused = run[e].excused
      BY <1>1 DEF Runs
<1> HIDE DEF r
<1>4. run'[e] = r /\ \A f \in Enforcers \ {e} : run'[f] = run[f]
      BY <1>1, <1>2, <1>3, SetEffect
<1>5. /\ Pending(e)' = Pending(e) /\ Handled(e)' = Handled(e) /\ Active(e)' /\ Active(e)
      BY <1>2, <1>3, <1>4 DEF Pending, Handled, Active, AtSub
<1>6. Spreads
      BY <1>3, <1>4, <1>5, SpreadsOn
<1>7. RunOK(e)'
      BY <1>1, <1>2, <1>3, <1>4, <1>5 DEF RunInv, RunOK, AtSub
<1>8. CopyOK(e)' /\ StagedOK(e)'
  <2>1. DOMAIN run[e].copy \subseteq Instances
        BY <1>1, RunFacts
  <2> QED
      BY <1>1, <1>2, <1>3, <1>4, <1>5, <1>6, <2>1 DEF RunInv, CopyOK, StagedOK, Spreads
<1>9. WorkOK(e)'
      BY <1>1, <1>2, <1>3, <1>4, <1>5 DEF RunInv, WorkOK, DownOK, SuspendOK
<1> QED
    BY <1>1, <1>2, <1>3, <1>5, <1>6, <1>7, <1>8, <1>9, RunStepInv DEF RunInv

\* The client and its instances are loaded: what is not listed is down.
LEMMA LoadInv ==
    ASSUME SubsInv, NEW e \in Enforcers, Load(e)
    PROVE  SubsInv'
<1> DEFINE c == subs[run[e].cur].client
           list == {i \in Instances : insts[i].client = c /\ OwnView(e, i) \in Listed}
           D == DOMAIN run[e].copy \cup list
           copies == [i \in D |-> IF i \in DOMAIN run[e].copy THEN run[e].copy[i]
                                  ELSE [read |-> insts[i].status, now |-> insts[i].status]]
           S == IF ToSuspend(e, c) THEN run[e].suspends \cup {c} ELSE run[e].suspends
           r == [run[e] EXCEPT !.at = "tear", !.seen = @ \cup {c}, !.copy = copies,
                               !.suspends = S, !.todo = list]
<1>1. /\ run \in [Enforcers -> Runs] /\ faults \in 0..MaxFaults /\ requests \in 0..MaxRequests
      /\ machines \in [Instances -> {"none", "running", "suspended", "gone"}]
      /\ RunOK(e) /\ CopyOK(e) /\ StagedOK(e) /\ WorkOK(e) /\ WorldOK
      BY DEF SubsInv, WorldOK, RunInv
<1>2. /\ UNCHANGED <<clock, subs, clients, insts, events, reactivating, request, requests>>
      /\ machines' = machines /\ faults' = faults
      /\ run[e].at = "load" /\ Set(e, r)
      BY DEF Load, world
<1>3. /\ run[e] \in Runs /\ DOMAIN run[e].copy \subseteq Instances
      /\ run[e].copy \in Copies /\ run[e].seen \subseteq Clients /\ run[e].suspends \subseteq Clients
      /\ \A i \in DOMAIN run[e].copy : run[e].copy[i] \in Frames
  <2>1. run[e].copy \in Copies
        BY <1>1, RunFacts
  <2>2. \A i \in DOMAIN run[e].copy : run[e].copy[i] \in Frames
        BY <2>1 DEF Copies
  <2> QED
      BY <1>1, <2>1, <2>2, RunFacts
<1>4. /\ run[e].cur \in Subs /\ subs[run[e].cur].status # "none"
      BY <1>1, <1>2 DEF RunOK, AtSub, Pending
<1>5. c \in Clients
  <2>1. subs[run[e].cur] \in SubRows
        BY <1>1, <1>4, RowFacts
  <2> QED
      BY <2>1 DEF SubRows
<1>6. \A i \in list : i \in Instances /\ insts[i].client = c
      OBVIOUS
<1>7. \A i \in list \ DOMAIN run[e].copy : insts[i].status \in Listed /\ insts[i].status \in Statuses
      BY DEF OwnView, Listed, Statuses
<1>8. \A i \in Instances \ (list \cup DOMAIN run[e].copy) :
         insts[i].client = c => insts[i].status \notin Listed
      BY DEF OwnView
<1>9. /\ list \subseteq Instances /\ D \in SUBSET Instances
      BY <1>3
<1> HIDE DEF c, list
<1>10. /\ DOMAIN copies = D
       /\ \A i \in DOMAIN run[e].copy : copies[i] = run[e].copy[i]
       /\ \A i \in list \ DOMAIN run[e].copy :
             copies[i].read = insts[i].status /\ copies[i].now = insts[i].status
      OBVIOUS
<1>11. copies \in Copies
  <2>1. \A i \in list \ DOMAIN run[e].copy :
           [read |-> insts[i].status, now |-> insts[i].status] \in Frames
        BY <1>7 DEF Frames
  <2>2. copies \in [D -> Frames]
        BY <1>3, <2>1
  <2> HIDE DEF copies, D
  <2> QED
      BY <1>9, <2>2, CopyFacts
<1>12. DOMAIN copies = DOMAIN run[e].copy \cup list
      BY <1>10
<1> HIDE DEF copies, D
<1>13. S \subseteq Clients /\ S \subseteq run[e].seen \cup {c} /\ run[e].suspends \subseteq S
      BY <1>1, <1>3, <1>5 DEF RunOK
<1>14. ToSuspend(e, c) => c \in S
      OBVIOUS
<1> HIDE DEF S
<1>15. /\ r \in Runs /\ r.at = "tear" /\ r.due = run[e].due /\ r.cur = run[e].cur
       /\ r.done = run[e].done /\ r.seen = run[e].seen \cup {c} /\ r.suspends = S
       /\ r.copy = copies /\ r.todo = list /\ r.excused = run[e].excused
      BY <1>3, <1>5, <1>9, <1>11, <1>13 DEF Runs
<1> HIDE DEF r
<1>16. run'[e] = r /\ \A f \in Enforcers \ {e} : run'[f] = run[f]
      BY <1>1, <1>2, <1>15, SetEffect
<1>17. /\ Pending(e)' = Pending(e) /\ Handled(e)' = Handled(e) \cup {run[e].cur}
       /\ Active(e)' /\ Active(e)
      BY <1>2, <1>15, <1>16 DEF Pending, Handled, Active, AtSub
<1>18. Spreads
      BY <1>15, <1>16, <1>17, SpreadsOn
<1>19. RunOK(e)'
  <2>1. \A s \in Handled(e)' : subs'[s].client \in r.seen
        BY <1>1, <1>2, <1>15, <1>17 DEF RunOK, c
  <2>2. \A s \in Pending(e)' : subs'[s].status # "none"
        BY <1>1, <1>2, <1>17 DEF RunOK
  <2> QED
      BY <1>4, <1>12, <1>13, <1>15, <1>16, <1>17, <2>1, <2>2 DEF RunOK, AtSub
<1>20. CopyOK(e)'
  <2> SUFFICES ASSUME NEW i \in DOMAIN copies
               PROVE  /\ insts[i].status # "none" /\ insts[i].client \in run[e].seen \cup {c}
                      /\ copies[i].read \in Listed
                      /\ copies[i].now # copies[i].read =>
                            copies[i].now \in {"suspended", "destroyed"}
                      /\ copies[i].read = "suspended" =>
                            insts[i].status \notin Up \/ i \in run[e].excused
      BY <1>2, <1>15, <1>16, <1>17 DEF CopyOK
  <2>1. CASE i \in DOMAIN run[e].copy
        BY <1>1, <1>10, <1>17, <2>1 DEF CopyOK
  <2>2. CASE i \in list \ DOMAIN run[e].copy
        BY <1>6, <1>7, <1>10, <2>2 DEF Listed, Up
  <2> QED
      BY <1>12, <2>1, <2>2
<1>21. StagedOK(e)'
  <2> SUFFICES ASSUME NEW i \in DOMAIN copies, copies[i].now = "suspended",
                      copies[i].read # "suspended"
               PROVE  machines[i] # "running" \/ AllExcuse(i)'
      BY <1>2, <1>15, <1>16, <1>17 DEF StagedOK
  <2>1. i \in DOMAIN run[e].copy
        BY <1>10, <1>12
  <2> QED
      BY <1>1, <1>3, <1>10, <1>17, <1>18, <2>1 DEF StagedOK, Spreads
<1>22. ASSUME NEW i \in Instances PROVE DownOK(e, i)'
  <2>1. CASE i \in list
        BY <1>15, <1>16, <2>1 DEF DownOK
  <2>2. CASE i \notin list /\ insts[i].client \in run[e].seen
    <3>1. DownOK(e, i) /\ run[e].todo = {}
          BY <1>1, <1>2, <1>17 DEF WorkOK, RunOK
    <3>2. /\ i \in DOMAIN copies <=> i \in DOMAIN run[e].copy
          /\ i \in DOMAIN copies => copies[i] = run[e].copy[i]
          BY <1>10, <1>12, <2>2
    <3> QED
        BY <1>2, <1>15, <1>16, <2>2, <3>1, <3>2 DEF DownOK
  <2>3. CASE i \notin list /\ insts[i].client \notin run[e].seen
    <3>1. i \notin DOMAIN copies
          BY <1>1, <1>12, <2>3 DEF CopyOK
    <3>2. insts[i].client = c => insts[i].status \notin Listed
          BY <1>8, <1>12, <2>3, <3>1
    <3> QED
        BY <1>2, <1>15, <1>16, <2>3, <3>1, <3>2 DEF DownOK, Listed
  <2> QED
      BY <2>1, <2>2, <2>3
<1>23. ASSUME NEW b \in Clients PROVE SuspendOK(e, b)'
  <2>1. SuspendOK(e, b)
        BY <1>1, <1>17 DEF WorkOK
  <2>2. b = c => b \in S \/ b \in run[e].seen \/ clients[b] = "suspended"
        BY <1>14 DEF ToSuspend
  <2> QED
      BY <1>2, <1>13, <1>15, <1>16, <2>1, <2>2 DEF SuspendOK
<1> QED
    BY <1>1, <1>2, <1>15, <1>17, <1>18, <1>19, <1>20, <1>21, <1>22, <1>23, RunStepInv
    DEF RunInv, WorkOK

\* An instance is taken down at the provider: its machine does not run.
LEMMA TearInv ==
    ASSUME SubsInv, NEW e \in Enforcers, NEW i \in Instances, TearDown(e, i)
    PROVE  SubsInv'
<1> DEFINE mode == subs[run[e].cur].mode
           now == Target(mode)
           frame == [run[e].copy[i] EXCEPT !.now = now]
           copies == [run[e].copy EXCEPT ![i] = frame]
           r == [run[e] EXCEPT !.todo = @ \ {i}, !.copy[i].now = now]
<1>1. /\ run \in [Enforcers -> Runs] /\ faults \in 0..MaxFaults /\ requests \in 0..MaxRequests
      /\ machines \in [Instances -> {"none", "running", "suspended", "gone"}]
      /\ RunOK(e) /\ CopyOK(e) /\ StagedOK(e) /\ WorkOK(e) /\ WorldOK
      BY DEF SubsInv, WorldOK, RunInv
<1>2. /\ UNCHANGED <<clock, subs, clients, insts, events, reactivating, request, requests>>
      /\ faults' = faults /\ run[e].at = "tear" /\ i \in run[e].todo /\ Set(e, r)
      BY DEF TearDown
<1>3. PICK m \in Down(machines[i], mode) : machines' = [machines EXCEPT ![i] = m]
      BY DEF TearDown
<1>4. /\ run[e] \in Runs /\ DOMAIN run[e].copy \subseteq Instances
      /\ i \in DOMAIN run[e].copy /\ run[e].copy \in Copies
      BY <1>1, <1>2, RunFacts DEF RunOK
<1>5. PICK D \in SUBSET Instances : run[e].copy \in [D -> Frames]
      BY <1>4 DEF Copies
<1>6. /\ now \in Statuses /\ now \in {"suspended", "destroyed"}
      BY DEF Target, Statuses
<1>7. /\ m \in {"none", "running", "suspended", "gone"}
      /\ m = "running" => machines[i] = "running"
      /\ now = "suspended" => m # "running"
      BY <1>1, <1>3 DEF Down, Suspended, Target
<1>8. /\ machines' \in [Instances -> {"none", "running", "suspended", "gone"}]
      /\ machines'[i] = m /\ \A j \in Instances \ {i} : machines'[j] = machines[j]
      BY <1>1, <1>3, <1>7
<1> HIDE DEF now
<1>9. frame \in Frames /\ frame.now = now /\ frame.read = run[e].copy[i].read
  <2>1. run[e].copy[i] \in Frames
        BY <1>4, <1>5
  <2> QED
      BY <1>6, <2>1 DEF Frames
<1>10. r = [run[e] EXCEPT !.todo = @ \ {i}, !.copy = copies]
      BY <1>4 DEF Runs
<1> HIDE DEF frame, r
<1>11. /\ copies \in [D -> Frames] /\ DOMAIN copies = DOMAIN run[e].copy /\ copies[i] = frame
       /\ \A j \in DOMAIN copies \ {i} : copies[j] = run[e].copy[j]
      BY <1>4, <1>5, <1>9
<1>12. copies \in Copies
      BY <1>11, CopyFacts
<1> HIDE DEF copies
<1>13. /\ r \in Runs /\ r.at = run[e].at /\ r.due = run[e].due /\ r.cur = run[e].cur
       /\ r.done = run[e].done /\ r.seen = run[e].seen /\ r.suspends = run[e].suspends
       /\ r.copy = copies /\ r.todo = run[e].todo \ {i} /\ r.excused = run[e].excused
      BY <1>4, <1>10, <1>12 DEF Runs
<1>14. run'[e] = r /\ \A f \in Enforcers \ {e} : run'[f] = run[f]
      BY <1>1, <1>2, <1>13, SetEffect
<1>15. /\ Pending(e)' = Pending(e) /\ Handled(e)' = Handled(e) /\ Active(e)' /\ Active(e)
      BY <1>2, <1>13, <1>14 DEF Pending, Handled, Active, AtSub
<1>16. Spreads
      BY <1>13, <1>14, <1>15, SpreadsOn
<1>17. RunOK(e)'
      BY <1>1, <1>2, <1>11, <1>13, <1>14, <1>15 DEF RunOK, AtSub
<1>18. CopyOK(e)'
  <2> SUFFICES ASSUME NEW j \in DOMAIN copies
               PROVE  /\ insts[j].status # "none" /\ insts[j].client \in run[e].seen
                      /\ copies[j].read \in Listed
                      /\ copies[j].now # copies[j].read =>
                            copies[j].now \in {"suspended", "destroyed"}
                      /\ copies[j].read = "suspended" =>
                            insts[j].status \notin Up \/ j \in run[e].excused
      BY <1>2, <1>13, <1>14 DEF CopyOK
  <2> QED
      BY <1>1, <1>6, <1>9, <1>11, <1>15 DEF CopyOK
<1>19. StagedOK(e)'
  <2> SUFFICES ASSUME NEW j \in DOMAIN copies, copies[j].now = "suspended",
                      copies[j].read # "suspended"
               PROVE  machines'[j] # "running" \/ AllExcuse(j)'
      BY <1>13, <1>14 DEF StagedOK
  <2>1. CASE j = i
        BY <1>7, <1>8, <1>9, <1>11, <2>1
  <2>2. CASE j # i
    <3>1. j \in Instances /\ j \in DOMAIN run[e].copy /\ copies[j] = run[e].copy[j]
          BY <1>4, <1>11, <2>2
    <3> QED
        BY <1>1, <1>8, <1>15, <1>16, <2>2, <3>1 DEF StagedOK, Spreads
  <2> QED
      BY <2>1, <2>2
<1>20. ASSUME NEW j \in Instances PROVE DownOK(e, j)'
  <2>1. CASE j = i
    <3>1. i \in DOMAIN copies /\ copies[i].now = now
          BY <1>4, <1>9, <1>11
    <3> QED
        BY <1>6, <1>7, <1>8, <1>13, <1>14, <2>1, <3>1 DEF DownOK
  <2>2. CASE j # i
    <3>1. DownOK(e, j) /\ machines'[j] = machines[j]
          BY <1>1, <1>8, <1>15, <2>2 DEF WorkOK
    <3>2. /\ j \in DOMAIN copies <=> j \in DOMAIN run[e].copy
          /\ j \in DOMAIN copies => copies[j] = run[e].copy[j]
          /\ j \in r.todo <=> j \in run[e].todo
          BY <1>11, <1>13, <2>2
    <3> QED
        BY <1>2, <1>13, <1>14, <3>1, <3>2 DEF DownOK
  <2> QED
      BY <2>1, <2>2
<1>21. ASSUME NEW b \in Clients PROVE SuspendOK(e, b)'
      BY <1>1, <1>2, <1>13, <1>14, <1>15 DEF WorkOK, SuspendOK
<1>22. \A j \in Instances : machines'[j] = "running" => machines[j] = "running"
      BY <1>7, <1>8
<1> QED
    BY <1>1, <1>2, <1>8, <1>13, <1>15, <1>16, <1>17, <1>18, <1>19, <1>20, <1>21, <1>22,
       RunStepInv DEF RunInv, WorkOK

\* The provider fails: the run is excused from the instance.
LEMMA TearFailsInv ==
    ASSUME SubsInv, NEW e \in Enforcers, NEW i \in Instances, TearDownFails(e, i)
    PROVE  SubsInv'
<1> DEFINE r == [run[e] EXCEPT !.todo = @ \ {i}, !.excused = @ \cup {i}]
<1>1. /\ run \in [Enforcers -> Runs] /\ faults \in 0..MaxFaults /\ MaxFaults \in Nat
      /\ requests \in 0..MaxRequests
      /\ machines \in [Instances -> {"none", "running", "suspended", "gone"}]
      /\ RunOK(e) /\ CopyOK(e) /\ StagedOK(e) /\ WorkOK(e) /\ run[e] \in Runs
      BY SubscriptionsAssumption DEF SubsInv, WorldOK, RunInv
<1>2. /\ UNCHANGED <<clock, subs, clients, insts, events, reactivating, request, requests>>
      /\ machines' = machines /\ faults' \in 0..MaxFaults
      /\ run[e].at = "tear" /\ Set(e, r)
      BY <1>1 DEF TearDownFails, world
<1>3. /\ r \in Runs /\ r.at = run[e].at /\ r.due = run[e].due /\ r.cur = run[e].cur
      /\ r.done = run[e].done /\ r.seen = run[e].seen /\ r.suspends = run[e].suspends
      /\ r.copy = run[e].copy /\ r.todo = run[e].todo \ {i}
      /\ r.excused = run[e].excused \cup {i}
      BY <1>1 DEF Runs
<1> HIDE DEF r
<1>4. run'[e] = r /\ \A f \in Enforcers \ {e} : run'[f] = run[f]
      BY <1>1, <1>2, <1>3, SetEffect
<1>5. /\ Pending(e)' = Pending(e) /\ Handled(e)' = Handled(e) /\ Active(e)' /\ Active(e)
      BY <1>2, <1>3, <1>4 DEF Pending, Handled, Active, AtSub
<1>6. Spreads
      BY <1>3, <1>4, <1>5, SpreadsOn
<1>7. RunOK(e)'
      BY <1>1, <1>2, <1>3, <1>4, <1>5 DEF RunOK, AtSub
<1>8. CopyOK(e)' /\ StagedOK(e)'
  <2>1. DOMAIN run[e].copy \subseteq Instances
        BY <1>1, RunFacts
  <2> QED
      BY <1>1, <1>2, <1>3, <1>4, <1>5, <1>6, <2>1 DEF CopyOK, StagedOK, Spreads
<1>9. WorkOK(e)'
      BY <1>1, <1>2, <1>3, <1>4, <1>5 DEF WorkOK, DownOK, SuspendOK
<1> QED
    BY <1>1, <1>2, <1>3, <1>5, <1>6, <1>7, <1>8, <1>9, RunStepInv DEF RunInv

\* A run goes on to its next subscription, or to its commit.
LEMMA NextSubInv ==
    ASSUME SubsInv, NEW e \in Enforcers, NextSub(e)
    PROVE  SubsInv'
<1>1. /\ run \in [Enforcers -> Runs] /\ faults \in 0..MaxFaults /\ requests \in 0..MaxRequests
      /\ machines \in [Instances -> {"none", "running", "suspended", "gone"}]
      /\ RunOK(e) /\ CopyOK(e) /\ StagedOK(e) /\ WorkOK(e) /\ run[e] \in Runs
      BY DEF SubsInv, WorldOK, RunInv
<1>2. /\ UNCHANGED <<clock, subs, clients, insts, events, reactivating, request, requests>>
      /\ machines' = machines /\ faults' = faults /\ run[e].at = "tear" /\ run[e].todo = {}
  <2> DEFINE q == [run[e] EXCEPT !.done = @ \cup {run[e].cur}]
  <2>1. q.at = run[e].at /\ q.todo = run[e].todo
        BY <1>1 DEF Runs
  <2>2. q.at = "tear" /\ q.todo = {}
        BY DEF NextSub
  <2> QED
      BY <2>1, <2>2 DEF NextSub, world
<1>3. run[e].cur \in Subs /\ run[e].due \subseteq Subs /\ run[e].done \subseteq Subs
      BY <1>1, <1>2, RunFacts DEF RunOK, AtSub
<1>4. PICK r \in Runs :
         /\ Set(e, r) /\ r.done = run[e].done \cup {run[e].cur} /\ r.due \subseteq run[e].due
         /\ \/ r.at = "commit" /\ r.cur = None
            \/ r.at = "claim" /\ r.cur \in run[e].due
         /\ r.seen = run[e].seen /\ r.suspends = run[e].suspends /\ r.copy = run[e].copy
         /\ r.todo = run[e].todo /\ r.excused = run[e].excused
  <2> DEFINE q == [run[e] EXCEPT !.done = @ \cup {run[e].cur}]
  <2>1. /\ q \in Runs /\ q.done = run[e].done \cup {run[e].cur} /\ q.due = run[e].due
        /\ q.at = run[e].at
        /\ q.seen = run[e].seen /\ q.suspends = run[e].suspends /\ q.copy = run[e].copy
        /\ q.todo = run[e].todo /\ q.excused = run[e].excused
        BY <1>1, <1>3 DEF Runs
  <2>2. IF q.due = {} THEN Set(e, [q EXCEPT !.at = "commit", !.cur = None])
        ELSE \E s \in q.due : Set(e, [q EXCEPT !.at = "claim", !.cur = s, !.due = @ \ {s}])
        BY DEF NextSub
  <2> HIDE DEF q
  <2>3. CASE q.due = {}
    <3> DEFINE r == [q EXCEPT !.at = "commit", !.cur = None]
    <3>1. /\ r \in Runs /\ r.at = "commit" /\ r.cur = None /\ r.due = q.due /\ r.done = q.done
          /\ r.seen = q.seen /\ r.suspends = q.suspends /\ r.copy = q.copy
          /\ r.todo = q.todo /\ r.excused = q.excused
          BY <2>1 DEF Runs
    <3>2. Set(e, r)
          BY <2>2, <2>3
    <3> HIDE DEF r
    <3> QED
        BY <2>1, <3>1, <3>2
  <2>4. CASE q.due # {}
    <3>1. PICK s \in q.due : Set(e, [q EXCEPT !.at = "claim", !.cur = s, !.due = @ \ {s}])
          BY <2>2, <2>4
    <3> DEFINE r == [q EXCEPT !.at = "claim", !.cur = s, !.due = @ \ {s}]
    <3>2. s \in Subs
          BY <1>3, <2>1, <3>1
    <3>3. /\ r \in Runs /\ r.at = "claim" /\ r.cur = s /\ r.due = q.due \ {s} /\ r.done = q.done
          /\ r.seen = q.seen /\ r.suspends = q.suspends /\ r.copy = q.copy
          /\ r.todo = q.todo /\ r.excused = q.excused
          BY <2>1, <3>2 DEF Runs
    <3>4. Set(e, r)
          BY <3>1
    <3> HIDE DEF r
    <3> QED
        BY <2>1, <3>1, <3>3, <3>4
  <2> QED
      BY <2>3, <2>4
<1>5. run'[e] = r /\ \A f \in Enforcers \ {e} : run'[f] = run[f]
      BY <1>1, <1>4, SetEffect
<1>6. /\ Pending(e)' \subseteq Pending(e) /\ Handled(e)' = Handled(e)
      /\ Active(e)' /\ Active(e)
      BY <1>2, <1>4, <1>5 DEF Pending, Handled, Active, AtSub
<1>7. Spreads
      BY <1>4, <1>5, <1>6, SpreadsOn
<1>8. RunOK(e)'
  <2>1. /\ \A s \in Pending(e)' : subs'[s].status # "none"
        /\ \A s \in Handled(e)' : subs'[s].client \in r.seen
        BY <1>1, <1>2, <1>4, <1>6 DEF RunOK
  <2>2. AtSub(e)' => r.cur \in Subs
        BY <1>3, <1>4, <1>5 DEF AtSub
  <2>3. r.todo = {} /\ r.suspends \subseteq r.seen /\ r.at # "expire"
        BY <1>1, <1>2, <1>4 DEF RunOK
  <2> QED
      BY <1>5, <1>6, <2>1, <2>2, <2>3 DEF RunOK
<1>9. CopyOK(e)' /\ StagedOK(e)'
  <2>1. DOMAIN run[e].copy \subseteq Instances
        BY <1>1, RunFacts
  <2> QED
      BY <1>1, <1>2, <1>4, <1>5, <1>6, <1>7, <2>1 DEF CopyOK, StagedOK, Spreads
<1>10. WorkOK(e)'
      BY <1>1, <1>2, <1>4, <1>5, <1>6 DEF WorkOK, DownOK, SuspendOK
<1> QED
    BY <1>1, <1>2, <1>4, <1>6, <1>7, <1>8, <1>9, <1>10, RunStepInv DEF RunInv

\* A request reads a subscription that is to end now.
LEMMA AskToExpireInv ==
    ASSUME SubsInv, NEW e \in Enforcers, NEW s \in Subs, AskToExpire(e, s)
    PROVE  SubsInv'
<1> DEFINE r == [Idle EXCEPT !.at = "expire", !.cur = s, !.until = clock]
<1>1. /\ run \in [Enforcers -> Runs] /\ requests \in 0..MaxRequests /\ MaxRequests \in Nat
      /\ clock \in 0..MaxTime /\ faults \in 0..MaxFaults
      /\ machines \in [Instances -> {"none", "running", "suspended", "gone"}]
      BY SubscriptionsAssumption DEF SubsInv, WorldOK
<1>2. /\ UNCHANGED <<clock, subs, clients, insts, events, reactivating, request>>
      /\ requests < MaxRequests /\ requests' = requests + 1
      /\ machines' = machines /\ faults' = faults
      /\ subs[s].status = "active" /\ Set(e, r)
      BY DEF AskToExpire, Accept, world
<1>3. r \in Runs /\ Rests(r) /\ r.cur = s
  <2>1. /\ r.at = "expire" /\ r.due = {} /\ r.done = {} /\ r.seen = {} /\ r.suspends = {}
        /\ r.todo = {} /\ r.copy = <<>> /\ r.cur = s
        BY DEF Idle
  <2>2. r \in Runs
        BY <1>1, CopyFacts DEF Runs, Idle
  <2> HIDE DEF r
  <2> QED
      BY <2>1, <2>2, CopyFacts DEF Rests
<1> HIDE DEF r
<1>4. run'[e] = r /\ \A f \in Enforcers \ {e} : run'[f] = run[f]
      BY <1>1, <1>2, <1>3, SetEffect
<1>5. RunInv(e)' /\ ~Active(e)'
      BY <1>2, <1>3, <1>4, RestInv
<1>6. Spreads
      BY <1>4, <1>5, SpreadsOn
<1>7. requests' \in 0..MaxRequests
      BY <1>1, <1>2
<1> QED
    BY <1>1, <1>2, <1>3, <1>5, <1>6, <1>7, RunStepInv

\* The end of a subscription is brought forward, and the request looks.
LEMMA ExpireNowInv ==
    ASSUME SubsInv, NEW e \in Enforcers, ExpireNow(e)
    PROVE  SubsInv'
<1> DEFINE s == run[e].cur
           r == [Idle EXCEPT !.at = "select"]
           q == [subs[s] EXCEPT !.ends = run[e].until]
<1>1. /\ run \in [Enforcers -> Runs] /\ WorldOK /\ RequestOK /\ RunOK(e)
      BY DEF SubsInv, RunInv
<1>2. /\ run[e].at = "expire" /\ subs' = [subs EXCEPT ![s] = q] /\ Set(e, r)
      /\ UNCHANGED <<clock, clients, insts, machines, events, reactivating, request,
                     requests, faults>>
  <2>1. subs' = [subs EXCEPT ![s].ends = run[e].until]
        BY DEF ExpireNow
  <2> QED
      BY <2>1 DEF ExpireNow
<1>3. s \in Subs /\ subs[s] \in SubRows /\ run[e].until \in 0..MaxTime
  <2>1. s \in Subs /\ subs[s].status # "none"
        BY <1>1, <1>2 DEF RunOK
  <2>2. run[e] \in Runs
        BY <1>1
  <2>3. run[e].until \in 0..MaxTime
        BY <2>2 DEF Runs
  <2> QED
      BY <1>1, <2>1, <2>3, RowFacts
<1>4. /\ q \in SubRows /\ q.status = subs[s].status /\ q.torn = subs[s].torn
      /\ q.client = subs[s].client
      BY <1>3 DEF SubRows
<1> HIDE DEF q, s
<1>5. /\ subs' \in [Subs -> {NoSub} \cup SubRows]
      /\ \A x \in Subs : /\ subs'[x].status = subs[x].status /\ subs'[x].torn = subs[x].torn
                         /\ subs'[x].client = subs[x].client
      BY <1>1, <1>2, <1>3, <1>4 DEF WorldOK
<1>6. r \in Runs /\ Rests(r) /\ r.at = "select"
  <2>1. /\ r.at = "select" /\ r.due = {} /\ r.done = {} /\ r.seen = {} /\ r.suspends = {}
        /\ r.todo = {} /\ r.copy = <<>>
        BY DEF Idle
  <2>2. r \in Runs
        BY CopyFacts, SubscriptionsAssumption DEF Runs, Idle
  <2> HIDE DEF r
  <2> QED
      BY <2>1, <2>2, CopyFacts DEF Rests
<1> HIDE DEF r
<1>7. /\ run' \in [Enforcers -> Runs] /\ run'[e] = r
      /\ \A f \in Enforcers \ {e} : run'[f] = run[f]
      BY <1>1, <1>2, <1>6, SetEffect
<1>8. RunInv(e)' /\ ~Active(e)'
      BY <1>6, <1>7, RestInv
<1>9. SubsKept /\ RowsKept /\ Starts /\ Spreads /\ \A f \in Enforcers : AllCalm(f)
  <2>1. Spreads
        BY <1>7, <1>8, SpreadsOn
  <2> QED
      BY <1>2, <1>5, <2>1 DEF SubsKept, RowsKept, Starts, AllCalm, Calm, CalmClient
<1>10. \A f \in Enforcers : RunInv(f)'
  <2>1. \A f \in Enforcers \ {e} : Same(f)
        BY <1>7 DEF Same
  <2> QED
      BY <1>7, <1>8, <1>9, <2>1, KeptInv
<1>11. \A x \in Subs : EventOK(x)'
      BY <1>2, <1>5, EventsKept
<1>12. RequestOK'
      BY <1>1, <1>2, <1>5, RequestKept
<1>13. WorldOK'
      BY <1>1, <1>2, <1>5 DEF WorldOK
<1> QED
    BY <1>7, <1>10, <1>11, <1>12, <1>13 DEF SubsInv

\* The commit: every subscription of the run expires, its clients are suspended
\* and its instances written, all at once.
LEMMA CommitInv ==
    ASSUME SubsInv, NEW e \in Enforcers, CommitRun(e)
    PROVE  SubsInv'
<1>1. /\ run \in [Enforcers -> Runs] /\ WorldOK /\ RequestOK
      /\ RunOK(e) /\ CopyOK(e) /\ StagedOK(e) /\ WorkOK(e) /\ run[e] \in Runs
      BY DEF SubsInv, RunInv
<1>2. /\ run[e].at = "commit" /\ Set(e, Idle)
      /\ subs' = [s \in Subs |-> IF s \in run[e].done THEN Expired(subs[s]) ELSE subs[s]]
      /\ clients' = [c \in Clients |-> IF c \in run[e].suspends THEN "suspended"
                                       ELSE clients[c]]
      /\ insts' = [i \in Instances |-> WrittenBy(run[e], i)]
      /\ events' = [s \in Subs |-> IF s \in run[e].done THEN events[s] + 1 ELSE events[s]]
      /\ UNCHANGED <<clock, machines, reactivating, request, requests, faults>>
      BY DEF CommitRun
<1>3. run' \in [Enforcers -> Runs] /\ run'[e] = Idle
      /\ \A f \in Enforcers \ {e} : run'[f] = run[f]
      BY <1>1, <1>2, IdleRun, SetEffect
<1>4. RunInv(e)' /\ Pending(e)' = {} /\ ~Active(e)'
      BY <1>3, IdleRun, RestInv DEF Rests
<1>5. run[e].done \subseteq Pending(e) /\ \A s \in run[e].done : s \in Subs /\ subs[s].status # "none"
      BY <1>1, RunFacts DEF RunOK, Pending
<1>6. \A s \in Subs :
         /\ s \notin run[e].done => subs'[s] = subs[s] /\ events'[s] = events[s]
         /\ s \in run[e].done => /\ subs'[s] \in SubRows /\ subs'[s].status = "expired"
                                 /\ subs'[s].torn = TRUE /\ subs'[s].client = subs[s].client
                                 /\ events'[s] = events[s] + 1
  <2> SUFFICES ASSUME NEW s \in Subs, s \in run[e].done
               PROVE  /\ Expired(subs[s]) \in SubRows /\ Expired(subs[s]).status = "expired"
                      /\ Expired(subs[s]).torn = TRUE
                      /\ Expired(subs[s]).client = subs[s].client
      BY <1>2
  <2>1. subs[s] \in SubRows
        BY <1>1, <1>5, RowFacts
  <2> QED
      BY <2>1 DEF Expired, SubRows
<1>7. \A i \in Instances :
         LET k == run[e].copy[i] IN
         \/ insts'[i] = insts[i]
         \/ /\ i \in DOMAIN run[e].copy /\ k.now # k.read
            /\ insts'[i] \in Rows /\ insts'[i].client = insts[i].client
            /\ insts[i].status # "none"
            /\ insts'[i].status = k.now /\ k.now \in {"suspended", "destroyed"}
  <2> SUFFICES ASSUME NEW i \in Instances, i \in DOMAIN run[e].copy,
                      run[e].copy[i].now # run[e].copy[i].read
               PROVE  LET n == [insts[i] EXCEPT !.status = run[e].copy[i].now] IN
                      /\ n \in Rows /\ n.client = insts[i].client /\ insts[i].status # "none"
                      /\ n.status = run[e].copy[i].now
                      /\ run[e].copy[i].now \in {"suspended", "destroyed"}
      BY <1>2 DEF WrittenBy
  <2>1. insts[i].status # "none" /\ run[e].copy[i].now \in {"suspended", "destroyed"}
        BY <1>1 DEF CopyOK
  <2>2. insts[i] \in Rows
        BY <1>1, <2>1, RowFacts
  <2> QED
      BY <2>1, <2>2 DEF Rows, Statuses
<1>8. WorldOK'
  <2>1. \A s \in Subs : subs'[s] \in {NoSub} \cup SubRows
        BY <1>1, <1>6 DEF WorldOK
  <2>2. \A i \in Instances : insts'[i] \in {NoRow} \cup Rows
        BY <1>1, <1>7 DEF WorldOK
  <2>3. subs' \in [Subs -> {NoSub} \cup SubRows]
        BY <1>2, <2>1
  <2>4. insts' \in [Instances -> {NoRow} \cup Rows]
        BY <1>2, <2>2
  <2>5. clients' \in [Clients -> {"active", "suspended"}]
        BY <1>1, <1>2 DEF WorldOK
  <2>6. events' \in [Subs -> Nat]
    <3>1. \A s \in Subs : events[s] \in Nat /\ events[s] + 1 \in Nat
          BY <1>1 DEF WorldOK
    <3> QED
        BY <1>2, <3>1
  <2> QED
      BY <1>1, <1>2, <2>3, <2>4, <2>5, <2>6 DEF WorldOK
<1>9. RequestOK'
  <2>1. \A s \in Subs : subs[s].status = "none" => subs'[s].status = "none"
        BY <1>5, <1>6
  <2>2. \A i \in Instances : /\ insts'[i].client = insts[i].client
                             /\ insts[i].status = "none" <=> insts'[i].status = "none"
        BY <1>7
  <2> QED
      BY <1>1, <1>2, <2>1, <2>2, RequestKept
<1>10. SubsKept
      BY <1>6 DEF SubsKept
<1>11. RowsKept
      BY <1>7 DEF RowsKept
<1>12. Starts
      BY <1>2 DEF Starts
<1>13. Spreads
      BY <1>3, <1>4, SpreadsOn
<1>14. ASSUME NEW f \in Enforcers \ {e}, Active(f) PROVE AllCalm(f)
  <2>1. \A c \in Clients : CalmClient(f, c)
        BY <1>2 DEF CalmClient
  <2>2. ASSUME NEW i \in Instances PROVE Calm(f, i)
    <3>1. CASE insts'[i] = insts[i]
          BY <1>2, <3>1 DEF Calm
    <3>2. CASE /\ i \in DOMAIN run[e].copy /\ run[e].copy[i].now # run[e].copy[i].read
               /\ insts'[i].client = insts[i].client
               /\ insts'[i].status = run[e].copy[i].now
               /\ run[e].copy[i].now \in {"suspended", "destroyed"}
      <4>1. Active(e)
            BY <1>2 DEF Active
      <4>2. run[e].copy[i].now = "suspended" => machines[i] # "running" \/ AllExcuse(i)
            BY <1>1, <3>2, <4>1 DEF StagedOK
      <4>3. AllExcuse(i) => i \in run'[f].excused
            BY <1>3, <1>14 DEF AllExcuse
      <4> QED
          BY <1>2, <3>2, <4>2, <4>3 DEF Calm, Up
    <3> QED
        BY <1>7, <3>1, <3>2
  <2> QED
      BY <2>1, <2>2 DEF AllCalm
<1>15. \A f \in Enforcers \ {e} : RunInv(f)'
  <2>1. \A f \in Enforcers \ {e} : Same(f)
        BY <1>3 DEF Same
  <2> QED
      BY <1>3, <1>10, <1>11, <1>12, <1>13, <1>14, <2>1, KeptInv
<1>16. ASSUME NEW s \in Subs PROVE EventOK(s)'
  <2>1. CASE s \notin run[e].done
        BY <1>6, <2>1, EventsKept
  <2>2. CASE s \in run[e].done
    <3>1. events[s] \in Nat
          BY <1>1 DEF WorldOK
    <3> QED
        BY <1>6, <2>2, <3>1 DEF EventOK
  <2> QED
      BY <2>1, <2>2
<1> QED
    BY <1>3, <1>4, <1>8, <1>9, <1>15, <1>16 DEF SubsInv

-----------------------------------------------------------------------------
(* The theorems.                                                           *)

LEMMA InitSubsInv == Init => SubsInv
<1> SUFFICES ASSUME Init PROVE SubsInv
    OBVIOUS
<1>1. /\ 0 \in 0..MaxTime /\ 0 \in 0..MaxRequests /\ 0 \in 0..MaxFaults
      BY SubscriptionsAssumption
<1>2. WorldOK
      BY <1>1 DEF Init, WorldOK
<1>3. run \in [Enforcers -> Runs] /\ \A e \in Enforcers : run[e] = Idle
      BY IdleRun DEF Init
<1>4. ASSUME NEW e \in Enforcers PROVE RunInv(e) /\ Pending(e) = {}
  <2>1. Pending(e) = {} /\ Handled(e) = {} /\ ~Active(e) /\ ~AtSub(e)
        BY <1>3, IdleRun DEF Pending, Handled, Active, AtSub
  <2>2. RunOK(e)
        BY <1>3, <2>1, IdleRun DEF RunOK
  <2>3. CopyOK(e) /\ StagedOK(e) /\ WorkOK(e)
        BY <1>3, <2>1, IdleRun DEF CopyOK, StagedOK, WorkOK
  <2> QED
      BY <2>1, <2>2, <2>3 DEF RunInv
<1>5. RequestOK
      BY DEF Init, RequestOK
<1>6. \A s \in Subs : EventOK(s)
      BY DEF Init, EventOK, NoSub
<1> QED
    BY <1>2, <1>3, <1>4, <1>5, <1>6 DEF SubsInv

LEMMA SubsStep == SubsInv /\ [Next]_vars => SubsInv'
<1> SUFFICES ASSUME SubsInv, [Next]_vars PROVE SubsInv'
    OBVIOUS
<1>1. ASSUME NEW e \in Enforcers, Enforce(e) \/ Abort(e) \/ Deadlock(e) PROVE SubsInv'
      BY <1>1, SelectInv, ClaimInv, LoadInv, NextSubInv, CommitInv, TearInv, TearFailsInv, StopInv,
         ExpireNowInv
      DEF Enforce
<1>2. ASSUME NEW e \in ApiRuns, NEW s \in Subs, AskToExpire(e, s) PROVE SubsInv'
      BY <1>2, AskToExpireInv DEF Enforcers
<1>3. ASSUME NEW w \in Windows, NEW mode \in Modes, Subscribe(w, mode) PROVE SubsInv'
      BY <1>3, SubscribeInv
<1>4. ASSUME NEW c \in Clients, AssertTrading(c) \/ ResumeTrading(c) PROVE SubsInv'
      BY <1>4, AssertInv, ResumeInv
<1>5. ASSUME \/ Tick \/ RequestFails
             \/ \E c \in Clients : AskToSubscribe(c)
             \/ \E i \in Instances, kind \in {"start", "suspend", "destroy"} : Ask(kind, i)
             \/ \E i \in Instances, c \in Clients : AskToCreate(i, c)
      PROVE  SubsInv'
      BY <1>5, AskInv
<1>6. CASE CallProvider
      BY <1>6, CallInv
<1>7. ASSUME NEW status, Save(status) PROVE SubsInv'
      BY <1>7, SaveInv
<1>8. CASE UNCHANGED vars
  <2>1. UNCHANGED <<clock, subs, clients, insts, machines, events, run, reactivating,
                    request, requests, faults>>
        BY <1>8 DEF vars
  <2>2. WorldOK' /\ RequestOK' /\ run' \in [Enforcers -> Runs]
        BY <2>1 DEF SubsInv, WorldOK, RequestOK
  <2> QED
      BY <2>1, <2>2, UnchangedRuns, CalmWorld, OutsideInv
<1> QED
    BY <1>1, <1>2, <1>3, <1>4, <1>5, <1>6, <1>7, <1>8 DEF Next

THEOREM SubsInvariant == Spec => []SubsInv
<1> QED
    BY InitSubsInv, SubsStep, PTL DEF Spec

\* The rows, the machines, the runs and the administrator's request keep
\* their types, however many runs overlap.
THEOREM TypeCorrect == Spec => []TypeOK
<1>1. ASSUME SubsInv PROVE TypeOK
  <2>1. WorldOK /\ RequestOK /\ run \in [Enforcers -> Runs]
        BY <1>1 DEF SubsInv
  <2>4. ASSUME NEW e \in Enforcers
        PROVE  /\ run[e].at \in {"idle", "expire", "select", "claim", "load", "tear", "commit"}
               /\ run[e].due \cup run[e].done \subseteq Subs
               /\ run[e].suspends \subseteq run[e].seen /\ run[e].seen \subseteq Clients
               /\ run[e].todo \subseteq DOMAIN run[e].copy
               /\ DOMAIN run[e].copy \subseteq Instances
    <3>1. RunOK(e)
          BY <1>1 DEF SubsInv, RunInv
    <3>2. run[e] \in Runs
          BY <2>1
    <3>3. run[e].at \in {"idle", "expire", "select", "claim", "load", "tear", "commit"}
          BY <3>2 DEF Runs
    <3> QED
        BY <2>1, <3>1, <3>3, RunFacts DEF RunOK
  <2>5. request.at \in {"idle", "call", "save"}
        BY <2>1 DEF RequestOK, Asleep
  <2> QED
      BY <2>1, <2>4, <2>5 DEF TypeOK, WorldOK, SubRows, Rows, Statuses
<1> QED
    BY <1>1, SubsInvariant, PTL

\* A subscription is marked expired, torn down and announced in one commit:
\* no crash, failing call, deadlock or other run leaves one without the others.
THEOREM AllOrNothing == Spec => []ExpiryIsAllOrNothing
<1>1. ASSUME SubsInv PROVE ExpiryIsAllOrNothing
  <2>1. \A s \in Subs : EventOK(s) /\ subs[s].torn \in BOOLEAN /\ events[s] \in Nat
        BY <1>1, RowFacts DEF SubsInv, WorldOK
  <2>2. ASSUME NEW s \in Subs
        PROVE  /\ subs[s].torn <=> subs[s].status = "expired"
               /\ subs[s].torn <=> events[s] > 0
    <3>1. events[s] = 0 => ~(events[s] > 0)
          BY SMT
    <3> QED
        BY <2>1, <3>1, Zenon DEF EventOK
  <2> QED
      BY <2>2, Zenon DEF ExpiryIsAllOrNothing
<1> QED
    BY <1>1, SubsInvariant, PTL

\* When a run commits, each client it has dealt with is suspended and none of
\* their instances runs, but for those started meanwhile and those the provider
\* failed to take down.
THEOREM TeardownCompletes == Spec => TeardownIsComplete
<1>1. ASSUME SubsInv, Next, NEW e \in Enforcers,
             run[e].at = "commit", events' # events, run'[e] = Idle
      PROVE  TornDown(e)
  <2>1. /\ run \in [Enforcers -> Runs] /\ WorldOK
        /\ RunOK(e) /\ CopyOK(e) /\ WorkOK(e) /\ Active(e)
        BY <1>1 DEF SubsInv, RunInv, Active
  <2>2. CommitRun(e)
    <3>1. PICK f \in Enforcers : CommitRun(f)
          BY <1>1 DEF Next, Enforce, Select, Claim, Load, NextSub, TearDown, TearDownFails, Abort,
             Deadlock, AskToExpire, ExpireNow, Subscribe, AskToSubscribe, AssertTrading,
             ResumeTrading, Ask, AskToCreate,
             CallProvider, Save, RequestFails, Tick, world
    <3>2. Set(f, Idle)
          BY <3>1 DEF CommitRun
    <3>3. \A g \in Enforcers \ {f} : run'[g] = run[g]
          BY <2>1, <3>2, IdleRun, SetEffect
    <3>4. run[e] # Idle
          BY <1>1, IdleRun
    <3> QED
        BY <1>1, <3>1, <3>3, <3>4
  <2>3. /\ clients' = [c \in Clients |-> IF c \in run[e].suspends THEN "suspended"
                                         ELSE clients[c]]
        /\ insts' = [i \in Instances |-> WrittenBy(run[e], i)] /\ machines' = machines
        BY <2>2 DEF CommitRun
  <2> DEFINE done == {subs[s].client : s \in run[e].done}
  <2>4. done \subseteq run[e].seen /\ run[e].seen \subseteq Clients /\ run[e].todo = {}
        BY <1>1, <2>1, RunFacts DEF RunOK, Handled
  <2> HIDE DEF done
  <2>5. ASSUME NEW c \in done \ run[e].excused PROVE clients'[c] = "suspended"
        BY <2>1, <2>3, <2>4 DEF WorkOK, SuspendOK
  <2>6. ASSUME NEW i \in Instances \ run[e].excused, insts'[i].client \in done
        PROVE  ~Running(i)'
    <3>1. insts'[i] = WrittenBy(run[e], i)
          BY <2>3
    <3>2. insts'[i].client = insts[i].client
      <4>1. i \in DOMAIN run[e].copy => insts[i] \in Rows
            BY <2>1, RowFacts DEF CopyOK
      <4> QED
          BY <3>1, <4>1 DEF WrittenBy, Rows
    <3>3. DownOK(e, i) /\ insts[i].client \in run[e].seen
          BY <2>1, <2>4, <2>6, <3>2 DEF WorkOK
    <3>4. CASE i \in DOMAIN run[e].copy
      <4>1. /\ insts[i] \in Rows /\ run[e].copy[i].read \in Listed
            /\ run[e].copy[i].read = "suspended" => insts[i].status \notin Up
            BY <2>1, <3>4, RowFacts DEF CopyOK
      <4>2. run[e].copy[i].now # run[e].copy[i].read => insts'[i].status = run[e].copy[i].now
            BY <3>1, <3>4, <4>1 DEF WrittenBy, Rows
      <4>3. run[e].copy[i].now = run[e].copy[i].read => insts'[i] = insts[i]
            BY <3>1 DEF WrittenBy
      <4>4. \/ run[e].copy[i].now = "destroyed"
            \/ run[e].copy[i].now = "suspended" /\ machines[i] # "running"
            BY <2>4, <2>6, <3>3, <3>4 DEF DownOK
      <4> QED
          BY <2>3, <4>1, <4>2, <4>3, <4>4 DEF Running, Listed, Up
    <3>5. CASE i \notin DOMAIN run[e].copy
      <4>1. insts'[i] = insts[i]
            BY <3>1, <3>5 DEF WrittenBy
      <4> QED
          BY <2>3, <2>4, <2>6, <3>3, <3>5, <4>1 DEF DownOK, Running
    <3> QED
        BY <3>4, <3>5
  <2> QED
      BY <2>5, <2>6 DEF TornDown, done
<1>2. SubsInv /\ [Next]_vars =>
         [\A e \in Enforcers : run[e].at = "commit" /\ events' # events /\ run'[e] = Idle
                               => TornDown(e)]_vars
      BY <1>1 DEF vars
<1> QED
    BY <1>2, SubsInvariant, PTL DEF Spec, TeardownIsComplete

=============================================================================
