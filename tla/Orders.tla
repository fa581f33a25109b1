------------------------------- MODULE Orders -------------------------------
(***************************************************************************)
(* Order placement, broker failover, cancellation and the recovery scan    *)
(* (orders/service.py, replay/service.py) over the mock broker.            *)
(*                                                                         *)
(* Every request runs in an asyncio task with a database session of its    *)
(* own.  No row is locked: a task reads a row, keeps the loaded copy (the  *)
(* session is built with expire_on_commit=False) and on commit writes only *)
(* the columns it changed.  One action is the code between two awaits that *)
(* touch shared state, so any other task may act between two actions.      *)
(***************************************************************************)
EXTENDS Naturals, Sequences, FiniteSets

CONSTANTS
    Orders,      \* the (client_id, client_order_id) pairs
    Brokers,     \* the broker accounts a chain may name
    Placers,     \* tasks that run POST /orders/buy or /orders/sell
    Cancellers,  \* tasks that run POST /orders/{id}/cancel
    Scanners,    \* tasks that run POST /admin/replay/run
    MaxInflight, \* settings.max_inflight_orders
    MaxScans,    \* bound: recovery scans in a behaviour
    MaxCrashes,  \* bound: crashes of the API process
    None         \* no broker, no order

Tasks == Placers \cup Cancellers \cup Scanners

ASSUME TaskAssumption ==
    /\ Placers \cap (Cancellers \cup Scanners) = {}
    /\ Cancellers \cap Scanners = {}
    /\ IsFiniteSet(Tasks)
ASSUME BoundAssumption ==
    /\ MaxInflight \in Nat \ {0}
    /\ MaxScans \in Nat
    /\ MaxCrashes \in Nat
ASSUME NoneAssumption == None \notin Orders \cup Brokers

VARIABLES
    row,       \* the orders table
    attempts,  \* the order_attempts rows of each order, in insertion order
    failovers, \* the failover_events of each order, as (from, to) pairs
    events,    \* the outbox rows of each order, in insertion order
    book,      \* the broker's own book: broker_order_id is the index
    pc,        \* where each task is
    cur,       \* the order each task works on
    local,     \* the rest of each task's frame
    inflight,  \* _inflight_count, the permits taken from the semaphore
    scans,     \* recovery scans so far
    crashes,   \* crashes so far
    blind      \* auxiliary, of each order: has a cancel or a recovery started
               \* that could not see what was going on?

db   == <<row, attempts, failovers, events>>
vars == <<db, book, pc, cur, local, inflight, scans, crashes, blind>>
-----------------------------------------------------------------------------
Statuses    == {"ABSENT", "CREATED", "SUBMITTING", "SUBMITTED", "FAILED",
                "CANCELLED"}
\* INDOUBT is in STUCK_STATUSES too, but nothing in src/app writes it.
Stuck       == {"CREATED", "SUBMITTING"}
Terminal    == {"SUBMITTED", "FAILED", "CANCELLED"}
Cancellable == {"SUBMITTED", "SUBMITTING", "CREATED"}

Row     == [status : Statuses, broker : Brokers \cup {None}, bo : Nat]
Attempt == [no : Nat, broker : Brokers,
            status : {"submitting", "submitted", "failed"}, bo : Nat]
Listing == [order : Orders, broker : Brokers,
            status : {"accepted", "cancelled"}]

AbsentRow == [status |-> "ABSENT", broker |-> None, bo |-> 0]

\* The failover chain of a routing decision: every broker at most once.
Chains == {c \in UNION {[1..n -> Brokers] : n \in 1..Cardinality(Brokers)} :
              \A i, j \in DOMAIN c : c[i] = c[j] => i = j}

\* A task's frame: the loaded row, the chain and the position in it, the
\* attempt row it works on, and the orders a scan has still to visit.
Frame == [view : Row, chain : Seq(Brokers), idx : Nat, att : Nat,
          todo : SUBSET Orders]
IdleFrame == [view |-> AbsentRow, chain |-> <<>>, idx |-> 0, att |-> 0,
              todo |-> {}]

Submitting == {"route", "consume", "attempt", "send", "record", "failover",
               "reject"}
Placing    == {"insert"} \cup Submitting
Pcs        == Placing \cup {"idle", "admit", "cancelLocally", "cancelAtBroker",
                            "recordCancel", "next", "lookup", "adopt"}

Init ==
    /\ row       = [o \in Orders |-> AbsentRow]
    /\ attempts  = [o \in Orders |-> <<>>]
    /\ failovers = [o \in Orders |-> {}]
    /\ events    = [o \in Orders |-> <<>>]
    /\ book      = <<>>
    /\ pc        = [t \in Tasks |-> "idle"]
    /\ cur       = [t \in Tasks |-> None]
    /\ local     = [t \in Tasks |-> IdleFrame]
    /\ inflight  = 0
    /\ scans     = 0
    /\ crashes   = 0
    /\ blind     = [o \in Orders |-> {}]
-----------------------------------------------------------------------------
\* Mutant: every column of the loaded row is saved.
FlushAll(r, v, n) == n

\* A commit of the loaded row v, changed to n, over the stored row r: a column
\* the session did not change keeps its stored value.
Flush(r, v, n) ==
    [status |-> IF n.status # v.status THEN n.status ELSE r.status,
     broker |-> IF n.broker # v.broker THEN n.broker ELSE r.broker,
     bo     |-> IF n.bo # v.bo THEN n.bo ELSE r.bo]

Goto(t, where) == pc' = [pc EXCEPT ![t] = where]

CommitRow(t, n) ==
    row' = [row EXCEPT ![cur[t]] = Flush(@, local[t].view, n)]

\* Mutant of enqueue_outbox: nothing is enqueued.
EmitNothing(o, event) == UNCHANGED events
Emit(o, event) == events' = [events EXCEPT ![o] = Append(@, event)]

\* Mutants: the permit is never given back; every request gives one back.
KeepPermit(t)  == inflight
ReleaseAny(t)  == inflight - 1
Released(t)    == IF t \in Placers THEN inflight - 1 ELSE inflight

\* place() returns or raises: its finally clauses give the permit back.  For a
\* scan, _recover_one is over and the loop of run() goes to the next order.
Return(t) ==
    /\ pc' = [pc EXCEPT ![t] = IF t \in Scanners THEN "next" ELSE "idle"]
    /\ cur' = [cur EXCEPT ![t] = None]
    /\ local' = [local EXCEPT ![t] = [IdleFrame EXCEPT !.todo = local[t].todo]]
    /\ inflight' = Released(t)

Candidate(t) == local[t].chain[local[t].idx]
InChain(t)   == local[t].idx <= Len(local[t].chain)

\* Mutant: the chain ends one candidate too late.
ExhaustedLate(t) == local[t].idx > Len(local[t].chain) + 1
Exhausted(t)     == local[t].idx > Len(local[t].chain)

\* A next candidate is recorded in failover_events.  Mutant: it is not.
RecordNoFailover(t) == UNCHANGED failovers
RecordFailover(t) ==
    failovers' = IF local[t].idx < Len(local[t].chain)
                 THEN [failovers EXCEPT ![cur[t]] = @ \cup
                         {<<Candidate(t), local[t].chain[local[t].idx + 1]>>}]
                 ELSE failovers

NextCandidate(t) ==
    /\ RecordFailover(t)
    /\ local' = [local EXCEPT ![t].idx = @ + 1]
-----------------------------------------------------------------------------
(* OrderService.place up to the routing decision.  A refused subscription,  *)
(* an order that exists already and an unsupported mode return at once and  *)
(* change nothing, so Place is only the case that goes on.                  *)

\* The unique constraint on (client_id, client_order_id) decides who inserts.
\* Mutant: there is no such constraint.
NoConstraint(o) == TRUE
IsNew(o)        == row[o].status = "ABSENT"

Place(t, o) ==
    /\ t \in Placers
    /\ pc[t] = "idle"
    /\ IsNew(o)
    /\ Goto(t, "admit")
    /\ cur' = [cur EXCEPT ![t] = o]
    /\ UNCHANGED <<db, book, local, inflight, scans, crashes, blind>>

Admit(t) ==
    /\ pc[t] = "admit"
    /\ inflight < MaxInflight
    /\ inflight' = inflight + 1
    /\ Goto(t, "insert")
    /\ UNCHANGED <<db, book, cur, local, scans, crashes, blind>>

QueueFull(t) ==
    /\ pc[t] = "admit"
    /\ inflight = MaxInflight
    /\ Goto(t, "idle")
    /\ cur' = [cur EXCEPT ![t] = None]
    /\ UNCHANGED <<db, book, local, inflight, scans, crashes, blind>>

Insert(t) ==
    LET created == [AbsentRow EXCEPT !.status = "CREATED"] IN
    /\ pc[t] = "insert"
    /\ IsNew(cur[t])
    /\ row' = [row EXCEPT ![cur[t]] = created]
    /\ local' = [local EXCEPT ![t].view = created]
    /\ Goto(t, "route")
    /\ UNCHANGED <<attempts, failovers, events, book, cur, inflight, scans,
                   crashes, blind>>

InsertConflict(t) ==
    /\ pc[t] = "insert"
    /\ ~IsNew(cur[t])
    /\ Return(t)
    /\ UNCHANGED <<db, book, scans, crashes, blind>>

Route(t) ==
    /\ pc[t] = "route"
    /\ \E c \in Chains :
          local' = [local EXCEPT ![t].chain = c, ![t].idx = 1]
    /\ Goto(t, "consume")
    /\ UNCHANGED <<db, book, cur, inflight, scans, crashes, blind>>

NoRoute(t) ==
    /\ pc[t] = "route"
    /\ Return(t)
    /\ UNCHANGED <<db, book, scans, crashes, blind>>
-----------------------------------------------------------------------------
(* OrderService._submit_inline: the walk down the failover chain.          *)

Consume(t) ==
    /\ pc[t] = "consume"
    /\ InChain(t)
    /\ Goto(t, "attempt")
    /\ UNCHANGED <<db, book, cur, local, inflight, scans, crashes, blind>>

\* The limiter denies and the policy is REJECT.
RejectRateLimited(t) ==
    /\ pc[t] = "consume"
    /\ InChain(t)
    /\ CommitRow(t, [local[t].view EXCEPT !.status = "FAILED"])
    /\ Return(t)
    /\ UNCHANGED <<attempts, failovers, events, book, scans, crashes, blind>>

\* The limiter denies and the policy is any other.
Reroute(t) ==
    /\ pc[t] = "consume"
    /\ InChain(t)
    /\ NextCandidate(t)
    /\ UNCHANGED <<row, attempts, events, book, pc, cur, inflight, scans,
                   crashes, blind>>

\* What is awaited next raises: Redis is down, sessions.ensure is refused
\* (LOCK_CONTENTION), or a commit fails, after which the session refuses the
\* commits of the except clauses too.  Nothing is written, not even what the
\* broker has just accepted; _recover_one's error is caught by run().
Escape(t) ==
    /\ cur[t] # None
    /\ pc[t] # "admit"
    /\ Return(t)
    /\ UNCHANGED <<db, book, scans, crashes, blind>>

\* Mutant: the row keeps the broker of its first attempt.
AttemptedAtFirst(t) ==
    [local[t].view EXCEPT !.status = "SUBMITTING",
                          !.broker = IF @ = None THEN Candidate(t) ELSE @]
Attempted(t) ==
    [local[t].view EXCEPT !.status = "SUBMITTING", !.broker = Candidate(t)]

StartAttempt(t) ==
    /\ pc[t] = "attempt"
    /\ attempts' = [attempts EXCEPT ![cur[t]] =
                      Append(@, [no |-> local[t].idx, broker |-> Candidate(t),
                                 status |-> "submitting", bo |-> 0])]
    /\ CommitRow(t, Attempted(t))
    /\ local' = [local EXCEPT ![t].view = Attempted(t),
                              ![t].att = Len(attempts[cur[t]]) + 1]
    /\ Goto(t, "send")
    /\ UNCHANGED <<failovers, events, book, cur, inflight, scans, crashes,
                   blind>>

\* MockBrokerProvider.place_order: every accepted call is a new broker order.
BrokerAccepts(t) ==
    /\ pc[t] = "send"
    /\ book' = Append(book, [order |-> cur[t], broker |-> Candidate(t),
                             status |-> "accepted"])
    /\ local' = [local EXCEPT ![t].view.bo = Len(book) + 1]
    /\ Goto(t, "record")
    /\ UNCHANGED <<db, cur, inflight, scans, crashes, blind>>

\* Mutant: the attempt keeps its status.
SubmittedSilently(a, bo) == [a EXCEPT !.bo = bo]
Submitted(a, bo)         == [a EXCEPT !.status = "submitted", !.bo = bo]

\* One commit: the attempt, the order row and the outbox row.
RecordSuccess(t) ==
    /\ pc[t] = "record"
    /\ attempts' = [attempts EXCEPT ![cur[t]][local[t].att] =
                      Submitted(@, local[t].view.bo)]
    /\ row' = [row EXCEPT ![cur[t]].status = "SUBMITTED",
                          ![cur[t]].bo = local[t].view.bo]
    /\ Emit(cur[t], "submitted")
    /\ Return(t)
    /\ UNCHANGED <<failovers, book, scans, crashes, blind>>

\* place_order raises; the attempt is marked failed in a commit of its own.
AttemptFails(t) ==
    /\ pc[t] = "send"
    /\ attempts' = [attempts EXCEPT ![cur[t]][local[t].att].status = "failed"]
    /\ \/ Goto(t, "failover")  \* retryable, or an unknown exception
       \/ Goto(t, "reject")    \* MockBrokerError with retryable=False
    /\ UNCHANGED <<row, failovers, events, book, cur, local, inflight, scans,
                   crashes, blind>>

RejectOrder(t) ==
    /\ pc[t] = "reject"
    /\ CommitRow(t, [local[t].view EXCEPT !.status = "FAILED"])
    /\ Return(t)
    /\ UNCHANGED <<attempts, failovers, events, book, scans, crashes, blind>>

Failover(t) ==
    /\ pc[t] = "failover"
    /\ NextCandidate(t)
    /\ Goto(t, "consume")
    /\ UNCHANGED <<row, attempts, events, book, cur, inflight, scans, crashes,
                   blind>>

\* The chain is used up: FAILOVER_EXHAUSTED.
Exhaust(t) ==
    /\ pc[t] = "consume"
    /\ Exhausted(t)
    /\ CommitRow(t, [local[t].view EXCEPT !.status = "FAILED"])
    /\ Return(t)
    /\ UNCHANGED <<attempts, failovers, events, book, scans, crashes, blind>>
-----------------------------------------------------------------------------
(* OrderService.cancel                                                     *)

\* The tasks that submit an order, or look for something to adopt first.
Submitters(o) ==
    {t \in Tasks : cur[t] = o /\ pc[t] \in Submitting \cup {"lookup", "adopt"}}

SubmittedAttempts(o) ==
    {i \in DOMAIN attempts[o] : attempts[o][i].status = "submitted"}

\* A broker accepted the order and no attempt row says so: the commit is still
\* to come, or the process died or the commit failed before.
Unrecorded(o) ==
    \E i \in DOMAIN book :
        /\ book[i].order = o
        /\ \A j \in SubmittedAttempts(o) : attempts[o][j].bo # i

\* What a task that reads the tables of o now cannot see.
Hidden(o) == Submitters(o) # {} \/ Unrecorded(o)

\* (Auxiliary.)  A cancel that finds no broker_order_id is blind if there is, or
\* may be, one all the same.
BlindCancel(o) == IF row[o].bo = 0 /\ Hidden(o) THEN {"cancel"} ELSE {}

Cancel(t, o) ==
    /\ t \in Cancellers
    /\ pc[t] = "idle"
    /\ row[o].status \in Cancellable
    /\ cur' = [cur EXCEPT ![t] = o]
    /\ local' = [local EXCEPT ![t].view = row[o]]
    /\ Goto(t, IF row[o].bo = 0 THEN "cancelLocally" ELSE "cancelAtBroker")
    /\ blind' = [blind EXCEPT ![o] = @ \cup BlindCancel(o)]
    /\ UNCHANGED <<db, book, inflight, scans, crashes>>

\* The commit that ends both branches of cancel().
CommitCancel(t) ==
    /\ CommitRow(t, [local[t].view EXCEPT !.status = "CANCELLED"])
    /\ Emit(cur[t], "cancelled")
    /\ Return(t)
    /\ UNCHANGED <<attempts, failovers, book, scans, crashes, blind>>

\* "Never reached broker -- mark cancelled locally".
CancelLocally(t) == pc[t] = "cancelLocally" /\ CommitCancel(t)

\* MockBrokerProvider.cancel_order, which knows every order it has issued; a
\* refusal would end as Escape does.  Mutant: the broker is not called.
SkipBroker(bo)   == UNCHANGED book
BrokerCancel(bo) == book' = [book EXCEPT ![bo].status = "cancelled"]

CancelAtBroker(t) ==
    /\ pc[t] = "cancelAtBroker"
    /\ BrokerCancel(local[t].view.bo)
    /\ Goto(t, "recordCancel")
    /\ UNCHANGED <<db, cur, local, inflight, scans, crashes, blind>>

RecordCancel(t) == pc[t] = "recordCancel" /\ CommitCancel(t)
-----------------------------------------------------------------------------
(* ReplayService                                                           *)

Scan(t) ==
    /\ t \in Scanners
    /\ pc[t] = "idle"
    /\ scans < MaxScans
    /\ scans' = scans + 1
    /\ local' = [local EXCEPT ![t].todo =
                   {o \in Orders : row[o].status \in Stuck}]
    /\ Goto(t, "next")
    /\ UNCHANGED <<db, book, cur, inflight, crashes, blind>>

\* (Auxiliary.)  A recovery is blind like a cancel, and it makes a cancel blind
\* that has found no broker_order_id and not committed yet.
BlindRecovery(o) ==
    (IF Hidden(o) THEN {"recovery"} ELSE {}) \cup
    (IF \E t \in Tasks : cur[t] = o /\ pc[t] = "cancelLocally"
     THEN {"cancel"} ELSE {})

\* _recover_one refreshes the order and goes on unless it is terminal.
Recover(t, o) ==
    /\ pc[t] = "next"
    /\ o \in local[t].todo
    /\ row[o].status \notin Terminal
    /\ local' = [local EXCEPT ![t].todo = @ \ {o}, ![t].view = row[o]]
    /\ cur' = [cur EXCEPT ![t] = o]
    /\ Goto(t, "lookup")
    /\ blind' = [blind EXCEPT ![o] = @ \cup BlindRecovery(o)]
    /\ UNCHANGED <<db, book, inflight, scans, crashes>>

\* It is terminal, or the refresh raises, as it does for every order that
\* follows one whose commit failed.
Skip(t, o) ==
    /\ pc[t] = "next"
    /\ o \in local[t].todo
    /\ local' = [local EXCEPT ![t].todo = @ \ {o}]
    /\ UNCHANGED <<db, book, pc, cur, inflight, scans, crashes, blind>>

Adoptable(o) == {i \in DOMAIN attempts[o] :
                    /\ attempts[o][i].status = "submitted"
                    /\ attempts[o][i].bo # 0}

\* The submitted attempt with the highest attempt_no, or the routing engine.
LookupAttempts(t) ==
    LET found == Adoptable(cur[t]) IN
    /\ pc[t] = "lookup"
    /\ \/ /\ found = {}
          /\ Goto(t, "route")
          /\ UNCHANGED local
       \/ \E i \in found :
             /\ \A j \in found : attempts[cur[t]][j].no <= attempts[cur[t]][i].no
             /\ local' = [local EXCEPT ![t].att = i]
             /\ Goto(t, "adopt")
    /\ UNCHANGED <<db, book, cur, inflight, scans, crashes, blind>>

Adopt(t) ==
    LET a == attempts[cur[t]][local[t].att] IN
    /\ pc[t] = "adopt"
    /\ CommitRow(t, [status |-> "SUBMITTED", broker |-> a.broker, bo |-> a.bo])
    /\ Return(t)
    /\ UNCHANGED <<attempts, failovers, events, book, scans, crashes, blind>>

EndScan(t) ==
    /\ pc[t] = "next"
    /\ local[t].todo = {}
    /\ Goto(t, "idle")
    /\ UNCHANGED <<db, book, cur, local, inflight, scans, crashes, blind>>
-----------------------------------------------------------------------------
\* The API process dies: its tasks are gone, the database and the brokers stay.
Crash ==
    /\ crashes < MaxCrashes
    /\ crashes' = crashes + 1
    /\ pc' = [t \in Tasks |-> "idle"]
    /\ cur' = [t \in Tasks |-> None]
    /\ local' = [t \in Tasks |-> IdleFrame]
    /\ inflight' = 0
    /\ UNCHANGED <<db, book, scans, blind>>

Proceed(t) ==
    \/ Admit(t) \/ QueueFull(t) \/ Insert(t) \/ InsertConflict(t)
    \/ Route(t) \/ NoRoute(t)
    \/ Consume(t) \/ RejectRateLimited(t) \/ Reroute(t)
    \/ StartAttempt(t) \/ BrokerAccepts(t) \/ RecordSuccess(t)
    \/ AttemptFails(t) \/ RejectOrder(t) \/ Failover(t) \/ Exhaust(t)
    \/ CancelLocally(t) \/ CancelAtBroker(t) \/ RecordCancel(t)
    \/ (\E o \in Orders : Recover(t, o) \/ Skip(t, o))
    \/ LookupAttempts(t) \/ Adopt(t) \/ EndScan(t)

Step(t) == Proceed(t) \/ Escape(t)

Request(t) == Scan(t) \/ \E o \in Orders : Place(t, o) \/ Cancel(t, o)

Next == Crash \/ \E t \in Tasks : Request(t) \/ Step(t)

Spec == Init /\ [][Next]_vars

\* The event loop runs every task that can go on; nobody has to send requests,
\* and no task is ended by an exception that has to come.
FairSpec == Spec /\ \A t \in Tasks : WF_vars(Proceed(t))
-----------------------------------------------------------------------------
TypeOK ==
    /\ row \in [Orders -> Row]
    /\ attempts \in [Orders -> Seq(Attempt)]
    /\ failovers \in [Orders -> SUBSET (Brokers \X Brokers)]
    /\ events \in [Orders -> Seq({"submitted", "cancelled"})]
    /\ book \in Seq(Listing)
    /\ pc \in [Tasks -> Pcs]
    /\ cur \in [Tasks -> Orders \cup {None}]
    /\ local \in [Tasks -> Frame]
    /\ inflight \in 0..MaxInflight
    /\ scans \in 0..MaxScans
    /\ crashes \in 0..MaxCrashes
    /\ blind \in [Orders -> SUBSET {"cancel", "recovery"}]

\* Which tasks may be where, and what their frames then hold.
FrameOK(t) ==
    /\ pc[t] \in {"admit", "insert"} => t \in Placers
    /\ pc[t] \in Submitting => t \in Placers \cup Scanners
    /\ pc[t] \in {"cancelLocally", "cancelAtBroker", "recordCancel"} =>
          t \in Cancellers
    /\ pc[t] \in {"next", "lookup", "adopt"} => t \in Scanners
    /\ cur[t] = None <=> pc[t] \in {"idle", "next"}
    /\ pc[t] \in {"consume", "attempt", "send", "record", "failover"} =>
          local[t].idx >= 1
    /\ pc[t] \in {"attempt", "send", "record", "failover"} => InChain(t)
    /\ pc[t] \in {"send", "record", "adopt"} =>
          local[t].att \in DOMAIN attempts[cur[t]]
FramesOK == \A t \in Tasks : FrameOK(t)

\* Every request inside the engine holds one permit and every way out of
\* place() gives it back (orders/service.py:162-221).
Inside == {t \in Placers : pc[t] \in Placing}
InflightBalanced == inflight = Cardinality(Inside)

\* Orders that no recovery took up while another task was submitting them or
\* an acceptance was not recorded.
Sighted(o) == "recovery" \notin blind[o]

\* One client_order_id buys at most once, however often the request is sent,
\* whichever brokers fail, whatever cancels it and wherever the process dies:
\* the unique key admits one inserting task, that task stops at the first
\* acceptance (orders/service.py:178-205, 290-315), and recovery submits again
\* "no duplicate ... when possible" (replay/service.py:61).  It is not possible
\* in exactly two cases, an overlap and a lost acceptance: all others keep it.
AtMostOneAccepted ==
    \A i, j \in DOMAIN book :
        /\ book[i].order = book[j].order
        /\ Sighted(book[i].order)
        => i = j

\* The outbox is transactional: consumers are told of exactly the submissions
\* the attempts table records (orders/service.py:292-314).
EventsMatchAttempts ==
    \A o \in Orders :
        Cardinality({i \in DOMAIN events[o] : events[o][i] = "submitted"})
            = Cardinality(SubmittedAttempts(o))

\* The last event written tells whether the stored order is live or cancelled,
\* in whatever order placing, recovery and cancelling commit.  (A recovery that
\* adopts what another task submitted sends no event.  The order in which the
\* rows are published is another matter: Outbox.)
LastEventTellsStatus ==
    \A o \in Orders :
        Sighted(o) /\ row[o].status \in {"SUBMITTED", "CANCELLED"} =>
            /\ events[o] # <<>>
            /\ events[o][Len(events[o])] = IF row[o].status = "SUBMITTED"
                                          THEN "submitted" ELSE "cancelled"

\* The broker_order_id of an order row is one the broker issued for this order
\* and an attempt row recorded, and a SUBMITTED order has one, under every
\* interleaving of placing, cancelling, recovery and crashes.
RowBackedByAttempt ==
    \A o \in Orders :
        /\ row[o].status = "SUBMITTED" => row[o].bo # 0
        /\ row[o].bo # 0 =>
              /\ book[row[o].bo].order = o
              /\ \E i \in SubmittedAttempts(o) : attempts[o][i].bo = row[o].bo

\* An order reaches a broker down the chain only over a recorded failover
\* (orders/service.py:247-258, 328-339).
FailoverTrail ==
    \A o \in Orders : \A i \in DOMAIN attempts[o] :
        attempts[o][i].no > 1 =>
            \E b \in Brokers : <<b, attempts[o][i].broker>> \in failovers[o]

\* A cancelled order is live at no broker, whichever tasks submit, cancel and
\* recover it and whatever is lost, unless a cancel or a recovery of it started
\* blind (orders/service.py:383, replay/service.py:106).
CancelledNotLive ==
    \A o \in Orders :
        row[o].status = "CANCELLED" /\ blind[o] = {} =>
            \A i \in DOMAIN book :
                book[i].order = o => book[i].status = "cancelled"

\* The broker account of a submitted order is the one whose book holds its
\* broker order: the two columns are written in different commits, and again by
\* every attempt and every recovery (orders/service.py:282, 297).
RowNamesItsBroker ==
    \A o \in Orders : row[o].status = "SUBMITTED" /\ Sighted(o) =>
        row[o].broker = book[row[o].bo].broker

\* A submitted order can only be cancelled: no late write of a task that placed,
\* recovered or cancelled it takes it back or moves it to another broker.
SubmittedIsSettled ==
    [][\A o \in Orders : row[o].status = "SUBMITTED" /\ Sighted(o) =>
          row'[o] \in {row[o], [row[o] EXCEPT !.status = "CANCELLED"]}]_vars

\* An order that is cancelled without a call to its broker is in no broker's
\* book: "Never reached broker -- mark cancelled locally"
\* (orders/service.py:384).
NeverReachedBroker ==
    \A o \in Orders : row[o].status = "CANCELLED" /\ row[o].bo = 0 =>
        \A i \in DOMAIN book : book[i].order # o

\* A broker never holds two orders for one client order: "place_order uses
\* idempotency_key per broker" (replay/service.py:133).
ResubmitIsIdempotent ==
    \A i, j \in DOMAIN book :
        /\ book[i].order = book[j].order
        /\ book[i].broker = book[j].broker
        => i = j

\* Every request is answered: the walk down the chain ends, whatever the
\* limiter, the brokers and the other tasks do.
EveryRequestReturns == \A t \in Tasks : pc[t] # "idle" ~> pc[t] = "idle"
=============================================================================
