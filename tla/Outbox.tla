------------------------------- MODULE Outbox -------------------------------
(***************************************************************************)
(* The transactional outbox: rows staged with a business change            *)
(* (enqueue_outbox), drained by the worker's loop and by the API's drain   *)
(* endpoint (drain_outbox), the topic they end in, and the API's consumer  *)
(* with the ring buffer behind the admin feed (events/consumer.py,         *)
(* events/bus_buffer.py).                                                  *)
(*                                                                         *)
(* An event is the number its row has in the order of created_at, which    *)
(* the database sets to the time the row's transaction began.  A           *)
(* drainer reads its batch, publishes row by row, each after an await, and *)
(* commits all marks at the end; no lock keeps a second drainer away.      *)
(***************************************************************************)
EXTENDS Naturals, Sequences, FiniteSets

CONSTANTS
    Events,      \* rows, numbered in the order of created_at
    Aggregates,  \* what events are about: an order, a broker, an IP
    Limit,       \* rows a drain takes
    RingSize,    \* capacity of the ring buffer
    MaxFaults,   \* bound: crashes and failed commits
    MaxFailures  \* bound: publish calls that fail

Drainers == {"worker", "api"}

ASSUME OutboxAssumption ==
    /\ Events \subseteq Nat /\ IsFiniteSet(Events) /\ Aggregates # {}
    /\ Limit \in Nat \ {0} /\ RingSize \in Nat \ {0}
    /\ MaxFaults \in Nat /\ MaxFailures \in Nat

VARIABLES
    rows,     \* outbox_events: status, aggregate, and (ghost) the earlier
              \* transactions on this aggregate that were still open
    topic,    \* what the bus holds, in order
    failed,   \* events of which a publish call raised
    failures, \* such calls so far
    pc,       \* where each drainer is
    todo,     \* rows of its batch that are not published yet
    marks,    \* statuses it has set and not committed, by event
    position, \* the API's consumer: messages handled
    feed,     \* the ring buffer, newest first
    counted,  \* its total_seen
    faults    \* crashes and failed commits so far

drains   == <<pc, todo, marks>>
consumer == <<position, feed, counted>>
vars     == <<rows, topic, failed, failures, drains, consumer, faults>>

Statuses == {"none", "staged", "rolledBack", "pending", "sent", "error"}
Visible  == {"pending", "sent", "error"}
Unmarked == [e \in Events |-> "none"]

Init ==
    /\ rows     = [e \in Events |-> [status |-> "none", beside |-> {},
                                about |-> CHOOSE a \in Aggregates : TRUE]]
    /\ topic    = <<>>
    /\ failed   = {}
    /\ failures = 0
    /\ pc       = [d \in Drainers |-> "idle"]
    /\ todo     = [d \in Drainers |-> {}]
    /\ marks    = [d \in Drainers |-> Unmarked]
    /\ position = 0
    /\ feed     = <<>>
    /\ counted  = 0
    /\ faults   = 0
-----------------------------------------------------------------------------
\* The order rows are published in.  Mutant: the other one.
Latest(S) == CHOOSE e \in S : \A k \in S : e >= k
First(S)  == CHOOSE e \in S : \A k \in S : e <= k
Before(S, e) == {k \in S : k < e}
Elems(s)  == {s[i] : i \in DOMAIN s}
Pending   == {e \in Events : rows[e].status = "pending"}
Staged(a) == {e \in Events : rows[e].status = "staged" /\ rows[e].about = a}

(* A business transaction: its row appears with its commit or not at all.  *)
Enqueue(e, a) ==
    /\ rows[e].status = "none"
    /\ \A k \in Before(Events, e) : rows[k].status # "none"
    /\ rows' = [rows EXCEPT ![e] = [status |-> "staged", about |-> a, beside |-> Staged(a)]]
    /\ UNCHANGED <<topic, failed, failures, drains, consumer, faults>>

EndTransaction(e, status) ==
    /\ rows[e].status = "staged"
    /\ rows' = [rows EXCEPT ![e].status = status]
    /\ UNCHANGED <<topic, failed, failures, drains, consumer, faults>>
-----------------------------------------------------------------------------
(* drain_outbox.                                                           *)

\* order_by(created_at).limit(limit).
Batch(S) == {e \in S : Cardinality(Before(S, e)) < Limit}

\* get_event_provider raised: nothing is changed, so it is no action.
Select(d) ==
    /\ pc[d] = "idle"
    /\ Pending # {}
    /\ pc' = [pc EXCEPT ![d] = "publish"]
    /\ todo' = [todo EXCEPT ![d] = Batch(Pending)]
    /\ UNCHANGED <<rows, topic, failed, failures, marks, consumer, faults>>

\* EventBusBuffer.append.  Mutant: without the look for the event's id.
Pushed(e) == IF Len(feed) < RingSize THEN <<e>> \o feed
             ELSE <<e>> \o SubSeq(feed, 1, RingSize - 1)
AppendAlways(e) == feed' = Pushed(e) /\ counted' = counted + 1
AppendEvent(e) ==
    IF e \in Elems(feed) THEN UNCHANGED <<feed, counted>>
    ELSE feed' = Pushed(e) /\ counted' = counted + 1

\* The row is marked in the session; the worker's buffer has no reader.
Mark(d, e, status) ==
    /\ marks' = [marks EXCEPT ![d][e] = status]
    /\ todo' = [todo EXCEPT ![d] = @ \ {e}]
    /\ pc' = [pc EXCEPT ![d] = IF todo[d] = {e} THEN "commit" ELSE "publish"]

Published(d) ==
    LET e == First(todo[d]) IN
    /\ pc[d] = "publish"
    /\ topic' = Append(topic, e)
    /\ Mark(d, e, "sent")
    /\ IF d = "api" THEN AppendEvent(e) ELSE UNCHANGED <<feed, counted>>
    /\ UNCHANGED <<rows, failed, failures, position, faults>>

\* What a row gets whose publish call raised.  Mutants: what the others get;
\* a status that nobody knows.
MarkedRetry  == "retry"
MarkedSent   == "sent"
MarkedFailed == "error"

\* send_and_wait raised, before or after the bus took the message.
PublishFails(d) ==
    LET e == First(todo[d]) IN
    /\ pc[d] = "publish"
    /\ failures < MaxFailures
    /\ failures' = failures + 1
    /\ failed' = failed \cup {e}
    /\ topic' \in {topic, Append(topic, e)}
    /\ Mark(d, e, MarkedFailed)
    /\ UNCHANGED <<rows, consumer, faults>>

\* The commit of all marks: a row that was read as pending is overwritten,
\* whatever another drainer made of it.  Mutant: one update of all that is
\* pending.
WrittenInBulk(d) == [e \in Events |-> IF e \in Pending
                                      THEN [rows[e] EXCEPT !.status = "sent"]
                                      ELSE rows[e]]
Written(d) == [e \in Events |-> IF marks[d][e] # "none"
                                THEN [rows[e] EXCEPT !.status = marks[d][e]]
                                ELSE rows[e]]
Forget(d) ==
    /\ pc' = [pc EXCEPT ![d] = "idle"]
    /\ todo' = [todo EXCEPT ![d] = {}]
    /\ marks' = [marks EXCEPT ![d] = Unmarked]

CommitMarks(d) ==
    /\ pc[d] = "commit"
    /\ rows' = Written(d)
    /\ Forget(d)
    /\ UNCHANGED <<topic, failed, failures, consumer, faults>>

CommitFails(d) ==
    /\ pc[d] = "commit"
    /\ faults < MaxFaults
    /\ faults' = faults + 1
    /\ Forget(d)
    /\ UNCHANGED <<rows, topic, failed, failures, consumer>>
-----------------------------------------------------------------------------
(* The API's consumer: offsets are committed now and then, unseen.      *)

Consume ==
    /\ position < Len(topic)
    /\ position' = position + 1
    /\ AppendEvent(topic[position + 1])
    /\ UNCHANGED <<rows, topic, failed, failures, drains, faults>>

\* A process dies: the batch it holds is pending as before; the API's ring
\* buffer is gone and its consumer goes on from the offset it committed last.
Crash(d) ==
    /\ faults < MaxFaults
    /\ faults' = faults + 1
    /\ Forget(d)
    /\ IF d = "api"
       THEN /\ position' \in 0..position
            /\ feed' = <<>>
            /\ counted' = 0
       ELSE UNCHANGED <<position, feed, counted>>
    /\ UNCHANGED <<rows, topic, failed, failures>>

DrainStep(d) ==
    \/ Select(d) \/ Published(d) \/ PublishFails(d) \/ CommitMarks(d) \/ CommitFails(d)

Next ==
    \/ \E e \in Events :
          \/ \E a \in Aggregates : Enqueue(e, a)
          \/ \E status \in {"pending", "rolledBack"} : EndTransaction(e, status)
    \/ \E d \in Drainers : DrainStep(d) \/ Crash(d)
    \/ Consume

Spec == Init /\ [][Next]_vars

\* outbox_publisher_loop runs for ever, and so does the API's consumer task.
\* The drain endpoint runs when an administrator calls it, but a request that
\* has begun goes on.
FairSpec ==
    /\ Spec
    /\ WF_vars(DrainStep("worker"))
    /\ WF_vars(DrainStep("api") /\ pc["api"] # "idle")
    /\ WF_vars(Consume)
-----------------------------------------------------------------------------
TypeOK ==
    /\ rows \in [Events -> [status : Statuses, about : Aggregates, beside : SUBSET Events]]
    /\ topic \in Seq(Events)
    /\ failed \in SUBSET Events
    /\ failures \in 0..MaxFailures
    /\ pc \in [Drainers -> {"idle", "publish", "commit"}]
    /\ todo \in [Drainers -> SUBSET Events]
    /\ marks \in [Drainers -> [Events -> {"none", "sent", "error"}]]
    /\ position \in 0..Len(topic)
    /\ feed \in Seq(Events) /\ Len(feed) <= RingSize
    /\ counted \in Nat
    /\ faults \in 0..MaxFaults

\* "Transactional outbox + worker drain" (CHANGELOG.md:64): seen from outside,
\* the rows behave as OutboxSpec says, through two drainers, failing calls and
\* commits, and crashes; under the fairness of the loops no event is left.
Abstract == INSTANCE OutboxSpec WITH
    committed <- {e \in Events : rows[e].status \in Visible},
    published <- Elems(topic),
    told      <- {e \in Events : rows[e].status \in {"sent", "error"}}
AtLeastOnce == Abstract!FairSpec

\* A row that says sent is on the bus, whoever wrote it last.
SentIsOnBus == \A e \in Events : rows[e].status = "sent" => e \in Elems(topic)

\* Consumers see the events of one aggregate in the order in which their
\* transactions began, repetitions apart; only a failed publish call, or a
\* transaction that was still open when the later one began, lets the later
\* event overtake.
AggregateInOrder ==
    \A i \in DOMAIN topic : \A k \in Before(Events, topic[i]) :
        /\ rows[k].status \in Visible
        /\ rows[k].about = rows[topic[i]].about
        /\ k \notin rows[topic[i]].beside
        => k \in failed \/ \E j \in 1..i : topic[j] = k

\* The feed shows an event once and counts it once, though it comes both from
\* the drain endpoint and from the consumer, and again after a crash, until
\* more events than the ring holds have been counted.
FeedCountsOnce ==
    counted <= RingSize => /\ counted = Len(feed)
                           /\ Cardinality(Elems(feed)) = Len(feed)
=============================================================================
