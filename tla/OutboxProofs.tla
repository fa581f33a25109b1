----------------------------- MODULE OutboxProofs -----------------------------
(***************************************************************************)
(* Proofs about Outbox, for any number of events, any batch and ring, and  *)
(* any number of faults.  RowsInv says what rows, marks and the topic owe  *)
(* one another and carries the refinement of OutboxSpec; OrderInv says     *)
(* what a batch owes the events that began before its own; FeedInv is the  *)
(* ring buffer's.                                                          *)
(***************************************************************************)
EXTENDS Outbox, FiniteSetTheorems, SequenceTheorems, WellFoundedInduction, TLAPS

Committed == {e \in Events : rows[e].status \in Visible}
OnBus     == Elems(topic)

\* What is in a batch, marked or on the bus was committed; a mark or a row says
\* sent or error only of what was tried; who publishes has something left.
DrainsRows ==
    /\ OnBus \subseteq Committed
    /\ \A d \in Drainers :
          /\ todo[d] \subseteq Committed
          /\ pc[d] = "publish" => todo[d] # {}
          /\ \A e \in Events :
                /\ marks[d][e] # "none"  => e \in Committed
                /\ marks[d][e] = "sent"  => e \in OnBus
                /\ marks[d][e] = "error" => e \in failed
RowsTrue ==
    \A e \in Events : /\ rows[e].status = "sent"  => e \in OnBus
                      /\ rows[e].status = "error" => e \in failed
RowsInv == TypeOK /\ DrainsRows /\ RowsTrue

\* k began before e, on the same aggregate, and had ended when e began.
Precedes(k, e) ==
    k < e /\ rows[k].about = rows[e].about /\ k \notin rows[e].beside

\* Events begin in their order, and what precedes an event has ended.
Numbered ==
    \A e \in Events : rows[e].status # "none" =>
        \A k \in Before(Events, e) :
            rows[k].status # "none" /\ (Precedes(k, e) => rows[k].status # "staged")

\* What precedes an event of a batch is in the batch too, or was tried.
BatchInOrder ==
    \A d \in Drainers : \A e \in todo[d] : \A k \in Committed :
        Precedes(k, e) => k \in todo[d] \cup OnBus \cup failed
OrderInv == Numbered /\ BatchInOrder /\ AggregateInOrder

\* As long as nothing left the ring it holds what was counted, each once.
FeedInv ==
    /\ Len(feed) <= counted
    /\ FeedCountsOnce

IInv == RowsInv /\ OrderInv /\ FeedInv
-----------------------------------------------------------------------------
\* The order_by of drain_outbox has a first row, whatever the batch holds: of
\* the sets of earlier rows one is least, as they are finite.
LEMMA FirstIsLeast ==
    ASSUME NEW S \in SUBSET Events, S # {}
    PROVE  First(S) \in S /\ \A k \in S : First(S) <= k
<1> DEFINE Earlier == {Before(Events, e) : e \in S}
<1>1. IsWellFoundedOn(StrictSubsetOrdering(Events), SUBSET Events)
      BY FS_StrictSubsetOrderingWellFounded, FS_FiniteSubsetsOfFinite, OutboxAssumption
<1>2. Earlier \subseteq SUBSET Events /\ Earlier # {}
      BY DEF Before
<1>3. PICK E \in Earlier : \A F \in Earlier : <<F, E>> \notin StrictSubsetOrdering(Events)
      BY <1>1, <1>2, WFMin
<1>4. PICK e \in S : E = Before(Events, e)
      OBVIOUS
<1>5. ASSUME NEW k \in S, k < e
      PROVE  FALSE
  <2>1. \A x \in Events : x < k => x < e
        BY <1>5, OutboxAssumption
  <2>2. Before(Events, k) \subseteq Before(Events, e)
        BY <2>1 DEF Before
  <2>3. k \in Before(Events, e) /\ k \notin Before(Events, k)
        BY <1>5, OutboxAssumption DEF Before
  <2> QED
      BY <1>2, <1>3, <1>4, <2>2, <2>3 DEF StrictSubsetOrdering
<1>6. \A k \in S : e <= k
      BY <1>5, OutboxAssumption
<1> QED
    BY <1>6 DEF First

\* The bus keeps what it has, and has the message that is added.
LEMMA BusGrows ==
    ASSUME NEW s \in Seq(Events), NEW e \in Events
    PROVE  /\ Append(s, e) \in Seq(Events)
           /\ Elems(Append(s, e)) = Elems(s) \cup {e}
           /\ Elems(s) \subseteq Events
<1>1. Append(s, e) \in Seq(Events) /\ DOMAIN Append(s, e) = 1..Len(s) + 1
      OBVIOUS
<1>2. Elems(s) \subseteq Events
      BY DEF Elems
<1>3. /\ Append(s, e)[Len(s) + 1] = e
      /\ \A i \in 1..Len(s) : Append(s, e)[i] = s[i]
      OBVIOUS
<1>4. Elems(Append(s, e)) \subseteq Elems(s) \cup {e}
      BY <1>1, <1>3 DEF Elems
<1>5. Elems(s) \cup {e} \subseteq Elems(Append(s, e))
      BY <1>1, <1>3 DEF Elems
<1> QED
    BY <1>1, <1>2, <1>4, <1>5

\* What a drainer that publishes takes from its batch is one of its events.
LEMMA FirstIsTodo ==
    ASSUME TypeOK, DrainsRows, NEW d \in Drainers, pc[d] = "publish"
    PROVE  /\ First(todo[d]) \in todo[d] /\ First(todo[d]) \in Committed
           /\ \A k \in todo[d] : First(todo[d]) <= k
<1>1. todo[d] \in SUBSET Events /\ todo[d] # {}
      BY DEF TypeOK, DrainsRows
<1> QED
    BY <1>1, FirstIsLeast DEF DrainsRows

\* Marking a row keeps what a drainer holds in its types, and so does forgetting
\* a batch.
LEMMA DrainsTyped ==
    ASSUME TypeOK, NEW d \in Drainers
    PROVE  /\ \A e \in Events, status \in {"sent", "error"} : Mark(d, e, status) =>
                 /\ pc' \in [Drainers -> {"idle", "publish", "commit"}]
                 /\ todo' \in [Drainers -> SUBSET Events]
                 /\ marks' \in [Drainers -> [Events -> {"none", "sent", "error"}]]
           /\ Forget(d) =>
                 /\ pc' \in [Drainers -> {"idle", "publish", "commit"}]
                 /\ todo' \in [Drainers -> SUBSET Events]
                 /\ marks' \in [Drainers -> [Events -> {"none", "sent", "error"}]]
<1>1. ASSUME NEW e \in Events, NEW status \in {"sent", "error"}, Mark(d, e, status)
      PROVE  /\ pc' \in [Drainers -> {"idle", "publish", "commit"}]
             /\ todo' \in [Drainers -> SUBSET Events]
  <2>1. (IF todo[d] = {e} THEN "commit" ELSE "publish") \in {"idle", "publish", "commit"}
        OBVIOUS
  <2> QED
      BY <1>1, <2>1 DEF TypeOK, Mark
<1>2. ASSUME NEW e \in Events, NEW status \in {"sent", "error"}, Mark(d, e, status)
      PROVE  marks' \in [Drainers -> [Events -> {"none", "sent", "error"}]]
      BY <1>2 DEF TypeOK, Mark
<1>3. ASSUME Forget(d)
      PROVE  /\ pc' \in [Drainers -> {"idle", "publish", "commit"}]
             /\ todo' \in [Drainers -> SUBSET Events]
             /\ marks' \in [Drainers -> [Events -> {"none", "sent", "error"}]]
      BY <1>3 DEF TypeOK, Forget, Unmarked
<1> QED
    BY <1>1, <1>2, <1>3

\* EventBusBuffer.append pushes an event, and drops the oldest of a full ring.
LEMMA AppendTyped ==
    ASSUME feed \in Seq(Events), Len(feed) <= RingSize, counted \in Nat,
           NEW e \in Events, AppendEvent(e)
    PROVE  feed' \in Seq(Events) /\ Len(feed') <= RingSize /\ counted' \in Nat
<1>1. CASE e \in Elems(feed)
      BY <1>1 DEF AppendEvent
<1>2. CASE e \notin Elems(feed) /\ Len(feed) < RingSize
  <2>1. feed' = <<e>> \o feed /\ counted' = counted + 1
        BY <1>2 DEF AppendEvent, Pushed
  <2>2. <<e>> \in Seq(Events) /\ Len(<<e>>) = 1
        OBVIOUS
  <2>3. <<e>> \o feed \in Seq(Events) /\ Len(<<e>> \o feed) = 1 + Len(feed)
        BY <2>2, ConcatProperties
  <2> QED
      BY <1>2, <2>1, <2>3, OutboxAssumption
<1>3. CASE e \notin Elems(feed) /\ Len(feed) = RingSize
  <2> DEFINE kept == SubSeq(feed, 1, RingSize - 1)
  <2>1. feed' = <<e>> \o kept /\ counted' = counted + 1
        BY <1>3, OutboxAssumption DEF AppendEvent, Pushed
  <2>2. kept \in Seq(Events) /\ Len(kept) = RingSize - 1
        BY <1>3, OutboxAssumption
  <2>3. <<e>> \in Seq(Events) /\ Len(<<e>>) = 1
        OBVIOUS
  <2>4. <<e>> \o kept \in Seq(Events) /\ Len(<<e>> \o kept) = 1 + Len(kept)
        BY <2>2, <2>3, ConcatProperties
  <2> QED
      BY <2>1, <2>2, <2>4, OutboxAssumption
<1> QED
    BY <1>1, <1>2, <1>3, OutboxAssumption

\* Every action leaves every variable in its type.
LEMMA TypeStep ==
    ASSUME TypeOK, DrainsRows, [Next]_vars
    PROVE  TypeOK'
<1>1. ASSUME NEW e \in Events, NEW a \in Aggregates, Enqueue(e, a)
      PROVE  TypeOK'
  <2>1. rows' \in [Events -> [status : Statuses, about : Aggregates, beside : SUBSET Events]]
        BY <1>1 DEF TypeOK, Enqueue, Staged, Statuses
  <2> QED
      BY <1>1, <2>1 DEF TypeOK, Enqueue, drains, consumer
<1>2. ASSUME NEW e \in Events, NEW status \in {"pending", "rolledBack"},
             EndTransaction(e, status)
      PROVE  TypeOK'
  <2> DEFINE Row == [status : Statuses, about : Aggregates, beside : SUBSET Events]
  <2>1. rows' = [rows EXCEPT ![e].status = status] /\ rows \in [Events -> Row]
        BY <1>2 DEF TypeOK, EndTransaction
  <2>2. [rows[e] EXCEPT !.status = status] \in Row
        BY <2>1 DEF Statuses
  <2> HIDE DEF Row
  <2>3. rows' \in [Events -> Row]
        BY <2>1, <2>2
  <2> USE DEF Row
  <2> QED
      BY <1>2, <2>3 DEF TypeOK, EndTransaction, drains, consumer
<1>3. ASSUME NEW d \in Drainers, Select(d)
      PROVE  TypeOK'
  <2>1. Batch(Pending) \in SUBSET Events
        BY DEF Batch, Pending
  <2> QED
      BY <1>3, <2>1 DEF TypeOK, Select, consumer
<1>4. ASSUME NEW d \in Drainers, Published(d)
      PROVE  TypeOK'
  <2> DEFINE e == First(todo[d])
  <2>1. e \in Events
        BY <1>4, FirstIsTodo DEF Published, TypeOK
  <2>2. Mark(d, e, "sent") /\ topic' = Append(topic, e)
        BY <1>4 DEF Published
  <2>3. topic' \in Seq(Events) /\ Len(topic') = Len(topic) + 1
        BY <2>1, <2>2 DEF TypeOK
  <2>4. feed' \in Seq(Events) /\ Len(feed') <= RingSize /\ counted' \in Nat
        BY <1>4, <2>1, AppendTyped DEF Published, TypeOK
  <2>5. position' \in 0..Len(topic')
        BY <1>4, <2>3 DEF Published, TypeOK
  <2> HIDE DEF e
  <2> QED
      BY <1>4, <2>1, <2>2, <2>3, <2>4, <2>5, DrainsTyped DEF Published, TypeOK
<1>5. ASSUME NEW d \in Drainers, PublishFails(d)
      PROVE  TypeOK'
  <2> DEFINE e == First(todo[d])
  <2>1. e \in Events
        BY <1>5, FirstIsTodo DEF PublishFails, TypeOK
  <2>2. /\ Mark(d, e, "error") /\ topic' \in {topic, Append(topic, e)}
        /\ failed' = failed \cup {e}
        BY <1>5 DEF PublishFails, MarkedFailed
  <2> HIDE DEF e
  <2>3. /\ Append(topic, e) \in Seq(Events) /\ Len(Append(topic, e)) = Len(topic) + 1
        /\ Len(topic) \in Nat
        BY <2>1, AppendProperties DEF TypeOK
  <2>4. topic' \in Seq(Events) /\ Len(topic) <= Len(topic') /\ Len(topic') \in Nat
    <3>1. CASE topic' = topic
          BY <2>3, <3>1 DEF TypeOK
    <3>2. CASE topic' = Append(topic, e)
          BY <2>3, <3>2
    <3> QED
        BY <2>2, <3>1, <3>2
  <2>6. failed' \in SUBSET Events /\ failures' \in 0..MaxFailures
    <3>1. failures' = failures + 1 /\ failures < MaxFailures
          BY <1>5 DEF PublishFails
    <3> QED
        BY <2>1, <2>2, <3>1, OutboxAssumption DEF TypeOK
  <2>5. position' \in 0..Len(topic')
        BY <1>5, <2>3, <2>4 DEF PublishFails, consumer, TypeOK
  <2> QED
      BY <1>5, <2>1, <2>2, <2>4, <2>5, <2>6, DrainsTyped DEF PublishFails, consumer, TypeOK
<1>6. ASSUME NEW d \in Drainers, CommitMarks(d)
      PROVE  TypeOK'
  <2>1. \A e \in Events :
           Written(d)[e] \in [status : Statuses, about : Aggregates, beside : SUBSET Events]
    <3> SUFFICES ASSUME NEW e \in Events
                 PROVE  Written(d)[e] \in [status : Statuses, about : Aggregates,
                                           beside : SUBSET Events]
        OBVIOUS
    <3>1. /\ rows[e] \in [status : Statuses, about : Aggregates, beside : SUBSET Events]
          /\ marks[d][e] \in {"none", "sent", "error"}
          BY DEF TypeOK
    <3>2. \A s \in {"sent", "error"} : [rows[e] EXCEPT !.status = s]
              \in [status : Statuses, about : Aggregates, beside : SUBSET Events]
          BY <3>1 DEF Statuses
    <3> QED
        BY <3>1, <3>2 DEF Written
  <2>2. rows' \in [Events -> [status : Statuses, about : Aggregates, beside : SUBSET Events]]
        BY <1>6, <2>1 DEF CommitMarks, Written
  <2> QED
      BY <1>6, <2>2, DrainsTyped DEF TypeOK, CommitMarks, consumer
<1>7. ASSUME NEW d \in Drainers, CommitFails(d)
      PROVE  TypeOK'
      BY <1>7, DrainsTyped, OutboxAssumption DEF TypeOK, CommitFails, consumer
<1>8. CASE Consume
  <2>1. topic[position + 1] \in Events /\ position' \in 0..Len(topic)
        BY <1>8 DEF Consume, TypeOK
  <2>2. feed' \in Seq(Events) /\ Len(feed') <= RingSize /\ counted' \in Nat
        BY <1>8, <2>1, AppendTyped DEF Consume, TypeOK
  <2> QED
      BY <1>8, <2>1, <2>2 DEF Consume, drains, TypeOK
<1>9. ASSUME NEW d \in Drainers, Crash(d)
      PROVE  TypeOK'
  <2>1. \/ position' \in 0..position /\ feed' = <<>> /\ counted' = 0
        \/ position' = position /\ feed' = feed /\ counted' = counted
        BY <1>9 DEF Crash
  <2>2. Len(topic) \in Nat /\ <<>> \in Seq(Events) /\ Len(<<>>) = 0
        BY DEF TypeOK
  <2>3. /\ feed' \in Seq(Events) /\ Len(feed') <= RingSize /\ counted' \in Nat
        /\ position' \in 0..Len(topic)
    <3>1. CASE position' \in 0..position /\ feed' = <<>> /\ counted' = 0
          BY <2>2, <3>1, OutboxAssumption DEF TypeOK
    <3>2. CASE position' = position /\ feed' = feed /\ counted' = counted
          BY <3>2 DEF TypeOK
    <3> QED
        BY <2>1, <3>1, <3>2
  <2> QED
      BY <1>9, <2>3, DrainsTyped, OutboxAssumption DEF Crash, TypeOK
<1>10. CASE UNCHANGED vars
       BY <1>10 DEF vars, drains, consumer, TypeOK
<1> QED
    BY <1>1, <1>2, <1>3, <1>4, <1>5, <1>6, <1>7, <1>8, <1>9, <1>10 DEF Next, DrainStep

\* A batch of what is pending has at least one row, as LIMIT is positive.
LEMMA BatchHasRows ==
    ASSUME Pending # {}
    PROVE  /\ Batch(Pending) # {} /\ Batch(Pending) \subseteq Pending
<1>1. Pending \in SUBSET Events
      BY DEF Pending
<1>2. First(Pending) \in Pending /\ Before(Pending, First(Pending)) = {}
  <2>1. First(Pending) \in Pending /\ \A k \in Pending : First(Pending) <= k
        BY <1>1, FirstIsLeast
  <2>2. \A k \in Pending : ~(k < First(Pending))
    <3> SUFFICES ASSUME NEW k \in Pending PROVE ~(k < First(Pending))
        OBVIOUS
    <3>1. k \in Nat /\ First(Pending) \in Nat /\ First(Pending) <= k
          BY <1>1, <2>1, OutboxAssumption
    <3> QED
        BY <3>1
  <2> QED
      BY <2>1, <2>2 DEF Before
<1>3. Cardinality(Before(Pending, First(Pending))) < Limit
      BY <1>2, FS_EmptySet, OutboxAssumption
<1> QED
    BY <1>2, <1>3 DEF Batch

\* What Mark changes: the drainer's todo loses the event and its mark is set.
LEMMA MarkEffect ==
    ASSUME TypeOK, NEW d \in Drainers, NEW e \in Events, NEW status, Mark(d, e, status)
    PROVE  /\ todo'[d] = todo[d] \ {e}
           /\ pc'[d] = "publish" => todo[d] # {e}
           /\ marks'[d][e] = status
           /\ \A k \in Events \ {e} : marks'[d][k] = marks[d][k]
           /\ \A c \in Drainers \ {d} :
                 todo'[c] = todo[c] /\ pc'[c] = pc[c] /\ marks'[c] = marks[c]
<1>1. todo'[d] = todo[d] \ {e} /\ \A c \in Drainers \ {d} : todo'[c] = todo[c]
      BY DEF Mark, TypeOK
<1>2. /\ pc'[d] = "publish" => todo[d] # {e}
      /\ \A c \in Drainers \ {d} : pc'[c] = pc[c]
      BY DEF Mark, TypeOK
<1>3. /\ marks'[d][e] = status
      /\ \A k \in Events \ {e} : marks'[d][k] = marks[d][k]
      /\ \A c \in Drainers \ {d} : marks'[c] = marks[c]
      BY DEF Mark, TypeOK
<1> QED
    BY <1>1, <1>2, <1>3

\* What Forget changes: the drainer holds nothing.
LEMMA ForgetEffect ==
    ASSUME TypeOK, NEW d \in Drainers, Forget(d)
    PROVE  /\ todo'[d] = {} /\ pc'[d] = "idle" /\ \A e \in Events : marks'[d][e] = "none"
           /\ \A c \in Drainers \ {d} :
                 todo'[c] = todo[c] /\ pc'[c] = pc[c] /\ marks'[c] = marks[c]
BY DEF Forget, Unmarked, TypeOK

\* The marks of a drainer take rows that were committed from one committed
\* status to another, and nothing else of any row.
LEMMA WrittenRows ==
    ASSUME TypeOK, DrainsRows, NEW d \in Drainers, rows' = Written(d)
    PROVE  /\ \A e \in Events :
                 /\ rows'[e].about = rows[e].about /\ rows'[e].beside = rows[e].beside
                 /\ rows'[e].status = IF marks[d][e] # "none" THEN marks[d][e]
                                      ELSE rows[e].status
           /\ Committed' = Committed
<1>1. ASSUME NEW e \in Events
      PROVE  /\ rows'[e].about = rows[e].about /\ rows'[e].beside = rows[e].beside
             /\ rows'[e].status = IF marks[d][e] # "none" THEN marks[d][e]
                                  ELSE rows[e].status
  <2>1. rows[e] \in [status : Statuses, about : Aggregates, beside : SUBSET Events]
        BY DEF TypeOK
  <2> QED
      BY <2>1 DEF Written
<1>2. ASSUME NEW e \in Events
      PROVE  rows'[e].status \in Visible <=> rows[e].status \in Visible
  <2>1. CASE marks[d][e] = "none"
        BY <1>1, <2>1
  <2>2. CASE marks[d][e] # "none"
    <3>1. rows[e].status \in Visible
          BY <2>2 DEF DrainsRows, Committed
    <3>2. marks[d][e] \in {"sent", "error"}
          BY <2>2 DEF TypeOK
    <3> QED
        BY <1>1, <2>2, <3>1, <3>2 DEF Visible
  <2> QED
      BY <2>1, <2>2
<1> QED
    BY <1>1, <1>2 DEF Committed

\* A step that publishes e, successfully or not: drain_outbox marks the row in
\* its session after the call, so what the mark says has happened.
LEMMA MarkStep ==
    ASSUME TypeOK, DrainsRows, NEW d \in Drainers, NEW status \in {"sent", "error"},
           pc[d] = "publish", Mark(d, First(todo[d]), status), rows' = rows,
           OnBus \subseteq OnBus', OnBus' \subseteq OnBus \cup {First(todo[d])},
           failed \subseteq failed',
           status = "sent" => First(todo[d]) \in OnBus',
           status = "error" => First(todo[d]) \in failed'
    PROVE  DrainsRows'
<1> DEFINE e == First(todo[d])
<1>1. e \in todo[d] /\ e \in Committed /\ e \in Events
      BY FirstIsTodo DEF Committed
<1>2. Committed' = Committed
      BY DEF Committed
<1>3. /\ todo'[d] = todo[d] \ {e}
      /\ pc'[d] = "publish" => todo[d] # {e}
      /\ marks'[d][e] = status
      /\ \A k \in Events \ {e} : marks'[d][k] = marks[d][k]
      /\ \A c \in Drainers \ {d} :
            todo'[c] = todo[c] /\ pc'[c] = pc[c] /\ marks'[c] = marks[c]
      BY <1>1, MarkEffect
<1> HIDE DEF e
<1>4. OnBus' \subseteq Committed'
      BY <1>1, <1>2 DEF DrainsRows, e
<1>5. ASSUME NEW c \in Drainers
      PROVE  todo'[c] \subseteq Committed' /\ (pc'[c] = "publish" => todo'[c] # {})
      BY <1>1, <1>2, <1>3 DEF DrainsRows
<1>6. ASSUME NEW c \in Drainers, NEW k \in Events
      PROVE  /\ marks'[c][k] # "none"  => k \in Committed'
             /\ marks'[c][k] = "sent"  => k \in OnBus'
             /\ marks'[c][k] = "error" => k \in failed'
  <2>1. CASE c = d /\ k = e
        BY <1>1, <1>2, <1>3, <2>1 DEF e
  <2>2. CASE ~(c = d /\ k = e)
    <3>1. marks'[c][k] = marks[c][k]
          BY <1>3, <2>2
    <3> QED
        BY <1>2, <3>1 DEF DrainsRows
  <2> QED
      BY <2>1, <2>2
<1> QED
    BY <1>4, <1>5, <1>6 DEF DrainsRows

\* Every action keeps rows, marks and the topic true to one another.
LEMMA RowsStep ==
    ASSUME RowsInv, [Next]_vars
    PROVE  DrainsRows' /\ RowsTrue'
<1> USE DEF RowsInv, OnBus
<1>1. ASSUME NEW e \in Events, NEW a \in Aggregates, Enqueue(e, a)
      PROVE  DrainsRows' /\ RowsTrue'
  <2>1. /\ \A k \in Events \ {e} : rows'[k] = rows[k]
        /\ rows[e].status = "none" /\ rows'[e].status = "staged"
        BY <1>1 DEF Enqueue, TypeOK
  <2>2. Committed' = Committed
        BY <2>1 DEF Committed, Visible
  <2>3. DrainsRows'
        BY <1>1, <2>2 DEF Enqueue, drains, DrainsRows
  <2>4. RowsTrue'
        BY <1>1, <2>1 DEF Enqueue, RowsTrue
  <2> QED
      BY <2>3, <2>4
<1>2. ASSUME NEW e \in Events, NEW status \in {"pending", "rolledBack"},
             EndTransaction(e, status)
      PROVE  DrainsRows' /\ RowsTrue'
  <2>1. /\ \A k \in Events \ {e} : rows'[k] = rows[k]
        /\ rows[e].status = "staged" /\ rows'[e].status = status
        BY <1>2 DEF EndTransaction, TypeOK
  <2>2. Committed \subseteq Committed'
        BY <2>1 DEF Committed, Visible
  <2>3. DrainsRows'
        BY <1>2, <2>2 DEF EndTransaction, drains, DrainsRows
  <2>4. RowsTrue'
        BY <1>2, <2>1 DEF EndTransaction, RowsTrue
  <2> QED
      BY <2>3, <2>4
<1>3. ASSUME NEW d \in Drainers, Select(d)
      PROVE  DrainsRows' /\ RowsTrue'
  <2>1. /\ todo'[d] = Batch(Pending) /\ pc'[d] = "publish"
        /\ \A c \in Drainers \ {d} : todo'[c] = todo[c] /\ pc'[c] = pc[c]
        BY <1>3 DEF Select, TypeOK
  <2>2. Batch(Pending) # {} /\ Batch(Pending) \subseteq Committed
        BY <1>3, BatchHasRows DEF Select, Pending, Committed, Visible
  <2>3. /\ marks' = marks /\ failed' = failed /\ OnBus' = OnBus /\ Committed' = Committed
        /\ rows' = rows
        BY <1>3 DEF Select, Committed
  <2>4. ASSUME NEW c \in Drainers
        PROVE  todo'[c] \subseteq Committed' /\ (pc'[c] = "publish" => todo'[c] # {})
        BY <2>1, <2>2, <2>3 DEF DrainsRows
  <2> QED
      BY <2>3, <2>4 DEF DrainsRows, RowsTrue
<1>4. ASSUME NEW d \in Drainers, Published(d)
      PROVE  DrainsRows' /\ RowsTrue'
  <2>1. First(todo[d]) \in Events
        BY <1>4, FirstIsTodo DEF Published, Committed
  <2>2. topic' = Append(topic, First(todo[d])) /\ UNCHANGED <<rows, failed>>
        BY <1>4 DEF Published
  <2>3. OnBus' = OnBus \cup {First(todo[d])}
        BY <2>1, <2>2, BusGrows DEF TypeOK
  <2>4. DrainsRows'
        BY <1>4, <2>2, <2>3, MarkStep DEF Published
  <2> QED
      BY <2>2, <2>3, <2>4 DEF RowsTrue
<1>5. ASSUME NEW d \in Drainers, PublishFails(d)
      PROVE  DrainsRows' /\ RowsTrue'
  <2>1. First(todo[d]) \in Events
        BY <1>5, FirstIsTodo DEF PublishFails, Committed
  <2>2. /\ topic' \in {topic, Append(topic, First(todo[d]))} /\ rows' = rows
        /\ failed' = failed \cup {First(todo[d])}
        BY <1>5 DEF PublishFails
  <2>3. OnBus \subseteq OnBus' /\ OnBus' \subseteq OnBus \cup {First(todo[d])}
        BY <2>1, <2>2, BusGrows DEF TypeOK
  <2>4. DrainsRows'
        BY <1>5, <2>2, <2>3, MarkStep DEF PublishFails, MarkedFailed
  <2> QED
      BY <2>2, <2>3, <2>4 DEF RowsTrue
<1>6. ASSUME NEW d \in Drainers, CommitMarks(d)
      PROVE  DrainsRows' /\ RowsTrue'
  <2>1. Committed' = Committed /\ OnBus' = OnBus /\ failed' = failed
        BY <1>6, WrittenRows DEF CommitMarks
  <2>2. \A e \in Events : rows'[e].status = IF marks[d][e] # "none" THEN marks[d][e]
                                            ELSE rows[e].status
        BY <1>6, WrittenRows DEF CommitMarks
  <2>3. RowsTrue'
        BY <2>1, <2>2 DEF RowsTrue, DrainsRows
  <2>4. DrainsRows'
        BY <1>6, <2>1, ForgetEffect DEF CommitMarks, DrainsRows
  <2> QED
      BY <2>3, <2>4
<1>7. ASSUME NEW d \in Drainers, CommitFails(d) \/ Crash(d)
      PROVE  DrainsRows' /\ RowsTrue'
  <2>1. Forget(d) /\ UNCHANGED <<rows, topic, failed>>
        BY <1>7 DEF CommitFails, Crash
  <2>2. Committed' = Committed /\ OnBus' = OnBus
        BY <2>1 DEF Committed
  <2> QED
      BY <2>1, <2>2, ForgetEffect DEF DrainsRows, RowsTrue
<1>8. CASE Consume \/ UNCHANGED vars
  <2>1. UNCHANGED <<rows, topic, failed, drains>>
        BY <1>8 DEF Consume, vars
  <2> QED
      BY <2>1 DEF DrainsRows, RowsTrue, Committed, drains
<1> QED
    BY <1>1, <1>2, <1>3, <1>4, <1>5, <1>6, <1>7, <1>8 DEF Next, DrainStep

\* RowsInv holds at the start.
LEMMA RowsInit == Init => RowsInv
<1> SUFFICES ASSUME Init PROVE RowsInv
    OBVIOUS
<1>1. (CHOOSE a \in Aggregates : TRUE) \in Aggregates
      BY OutboxAssumption
<1>2. TypeOK
      BY <1>1, OutboxAssumption DEF Init, TypeOK, Statuses, Unmarked, Elems
<1>3. DrainsRows /\ RowsTrue
      BY DEF Init, DrainsRows, RowsTrue, Unmarked, OnBus, Elems
<1> QED
    BY <1>2, <1>3 DEF RowsInv

\* Rows, marks and the topic are true to one another in every state.
LEMMA RowsInvariant == Spec => []RowsInv
<1>1. RowsInv /\ [Next]_vars => RowsInv'
      BY TypeStep, RowsStep DEF RowsInv
<1> QED
    BY <1>1, RowsInit, PTL DEF Spec

\* The tables, the topic, the drainers' sessions and the ring buffer keep their
\* types: no row gets a status that the code does not know, the ring never
\* holds more than its capacity, and no consumer is ahead of its topic.
THEOREM OutboxTyped == Spec => []TypeOK
<1>1. RowsInv => TypeOK
      BY DEF RowsInv
<1> QED
    BY <1>1, RowsInvariant, PTL

\* drain_outbox commits its marks after the calls they speak of, so a row that
\* says sent is on the bus, whichever drainer wrote it last and whatever
\* crashed in between.
THEOREM SentWasPublished == Spec => []SentIsOnBus
<1>1. RowsInv => SentIsOnBus
      BY DEF RowsInv, RowsTrue, SentIsOnBus, OnBus
<1> QED
    BY <1>1, RowsInvariant, PTL

-----------------------------------------------------------------------------
(* The refinement of OutboxSpec.                                           *)

\* What the mapping calls told.
Told == {e \in Events : rows[e].status \in {"sent", "error"}}

\* A step that leaves what is seen from outside is a stutter.
LEMMA Stutter ==
    ASSUME Committed' = Committed, Told' = Told, topic' = topic, failed' = failed
    PROVE  UNCHANGED Abstract!vars
BY DEF Abstract!vars, Committed, Told

\* A call to the bus, whatever becomes of it, is one of Publish.
LEMMA PublishMaps ==
    ASSUME RowsInv, NEW e \in Committed, rows' = rows,
           topic' \in {topic, Append(topic, e)}, failed' \in {failed, failed \cup {e}},
           topic' # topic \/ failed' # failed
    PROVE  [Abstract!Next]_(Abstract!vars)
<1>1. e \in Events /\ rows[e].status \in Visible
      BY DEF Committed
<1>2. OnBus' = OnBus \/ OnBus' = OnBus \cup {e}
      BY <1>1, BusGrows DEF RowsInv, TypeOK, OnBus
<1>3. CASE OnBus' = OnBus /\ failed' = failed
      BY <1>3 DEF Abstract!vars, OnBus
<1>4. CASE OnBus' = OnBus \cup {e} \/ failed' = failed \cup {e}
  <2>1. Abstract!Publish(e)
        BY <1>1, <1>2, <1>4 DEF Abstract!Publish, OnBus
  <2> QED
      BY <1>1, <2>1 DEF Abstract!Next
<1> QED
    BY <1>2, <1>3, <1>4

\* Every step of Outbox is a step of OutboxSpec or changes nothing of it.
LEMMA StepMaps ==
    ASSUME RowsInv, [Next]_vars
    PROVE  [Abstract!Next]_(Abstract!vars)
<1>1. ASSUME NEW e \in Events, NEW a \in Aggregates, Enqueue(e, a)
      PROVE  [Abstract!Next]_(Abstract!vars)
  <2>1. /\ \A k \in Events \ {e} : rows'[k] = rows[k]
        /\ rows[e].status = "none" /\ rows'[e].status = "staged"
        /\ UNCHANGED <<topic, failed>>
        BY <1>1 DEF Enqueue, RowsInv, TypeOK
  <2>2. Committed' = Committed /\ Told' = Told
        BY <2>1 DEF Committed, Told, Visible
  <2> QED
      BY <2>1, <2>2, Stutter
<1>2. ASSUME NEW e \in Events, NEW status \in {"pending", "rolledBack"},
             EndTransaction(e, status)
      PROVE  [Abstract!Next]_(Abstract!vars)
  <2>1. /\ \A k \in Events \ {e} : rows'[k] = rows[k]
        /\ rows[e].status = "staged" /\ rows'[e].status = status
        /\ UNCHANGED <<topic, failed>>
        BY <1>2 DEF EndTransaction, RowsInv, TypeOK
  <2>2. Told' = Told
        BY <2>1 DEF Told
  <2>3. CASE status = "rolledBack"
    <3>1. Committed' = Committed
          BY <2>1, <2>3 DEF Committed, Visible
    <3> QED
        BY <2>1, <2>2, <3>1, Stutter
  <2>4. CASE status = "pending"
    <3>1. e \notin Committed /\ Committed' = Committed \cup {e}
          BY <2>1, <2>4 DEF Committed, Visible
    <3>2. Abstract!Commit(e)
          BY <2>1, <2>2, <3>1 DEF Abstract!Commit, Committed, Told
    <3> QED
        BY <3>2 DEF Abstract!Next
  <2> QED
      BY <2>3, <2>4
<1>3. ASSUME NEW d \in Drainers, Published(d)
      PROVE  [Abstract!Next]_(Abstract!vars)
  <2>1. First(todo[d]) \in Committed
        BY <1>3, FirstIsTodo DEF Published, RowsInv
  <2>2. topic' = Append(topic, First(todo[d])) /\ UNCHANGED <<rows, failed>>
        BY <1>3 DEF Published
  <2>3. CASE topic' = topic
        BY <2>2, <2>3, Stutter DEF Committed, Told
  <2>4. CASE topic' # topic
        BY <2>1, <2>2, <2>4, PublishMaps
  <2> QED
      BY <2>3, <2>4
<1>4. ASSUME NEW d \in Drainers, PublishFails(d)
      PROVE  [Abstract!Next]_(Abstract!vars)
  <2>1. First(todo[d]) \in Committed
        BY <1>4, FirstIsTodo DEF PublishFails, RowsInv
  <2>2. /\ topic' \in {topic, Append(topic, First(todo[d]))}
        /\ failed' = failed \cup {First(todo[d])} /\ rows' = rows
        BY <1>4 DEF PublishFails
  <2>3. CASE topic' = topic /\ failed' = failed
        BY <2>2, <2>3, Stutter DEF Committed, Told
  <2>4. CASE topic' # topic \/ failed' # failed
        BY <2>1, <2>2, <2>4, PublishMaps
  <2> QED
      BY <2>3, <2>4
<1>5. ASSUME NEW d \in Drainers, CommitMarks(d)
      PROVE  [Abstract!Next]_(Abstract!vars)
  <2> PICK S \in SUBSET Events : \A e \in Events : e \in S <=> marks[d][e] # "none"
    <3>1. {e \in Events : marks[d][e] # "none"} \in SUBSET Events
          OBVIOUS
    <3> QED
        BY <3>1
  <2>1. /\ Committed' = Committed /\ UNCHANGED <<topic, failed>>
        /\ \A e \in Events : rows'[e].status = IF marks[d][e] # "none" THEN marks[d][e]
                                               ELSE rows[e].status
        BY <1>5, WrittenRows DEF CommitMarks, RowsInv
  <2>2. \A e \in S : marks[d][e] \in {"sent", "error"}
        BY DEF RowsInv, TypeOK
  <2>3. Told' = Told \cup S
        BY <2>1, <2>2 DEF Told
  <2>4. S \subseteq OnBus \cup failed
        BY <2>2 DEF RowsInv, DrainsRows
  <2>5. Abstract!Settle(S)
        BY <2>1, <2>3, <2>4 DEF Abstract!Settle, Committed, Told, OnBus
  <2> QED
      BY <2>5 DEF Abstract!Next
<1>6. ASSUME NEW d \in Drainers, Select(d) \/ CommitFails(d) \/ Crash(d)
      PROVE  [Abstract!Next]_(Abstract!vars)
  <2>1. UNCHANGED <<rows, topic, failed>>
        BY <1>6 DEF Select, CommitFails, Crash
  <2> QED
      BY <2>1, Stutter DEF Committed, Told
<1>7. CASE Consume \/ UNCHANGED vars
  <2>1. UNCHANGED <<rows, topic, failed>>
        BY <1>7 DEF Consume, vars
  <2> QED
      BY <2>1, Stutter DEF Committed, Told
<1> QED
    BY <1>1, <1>2, <1>3, <1>4, <1>5, <1>6, <1>7 DEF Next, DrainStep

\* Two drainers without a lock, calls that fail after the bus took the message,
\* commits that fail and processes that die: seen through its rows and the
\* topic, the outbox does what OutboxSpec says.  Nothing is published that was
\* not committed, and nothing is settled that was not tried.
THEOREM OutboxImplements == Spec => Abstract!Spec
<1>1. Init => Abstract!Init
      BY DEF Init, Abstract!Init, Visible, Elems
<1>2. RowsInv /\ [Next]_vars => [Abstract!Next]_(Abstract!vars)
      BY StepMaps
<1> QED
    BY <1>1, <1>2, RowsInvariant, PTL DEF Spec, Abstract!Spec

-----------------------------------------------------------------------------
(* The order on the topic.                                                 *)

\* A step that leaves rows as they are, or changes only a status within what is
\* committed, leaves Numbered; so does one that ends a transaction.
LEMMA NumberedKept ==
    ASSUME Numbered,
           \A e \in Events : /\ rows'[e].about = rows[e].about
                             /\ rows'[e].beside = rows[e].beside
                             /\ rows'[e].status = "none" <=> rows[e].status = "none"
                             /\ rows'[e].status = "staged" => rows[e].status = "staged"
    PROVE  Numbered'
BY DEF Numbered, Precedes, Before

\* An event begins only when all before it have, and waits in beside for those
\* that have not ended.
LEMMA NumberedStep ==
    ASSUME RowsInv, Numbered, [Next]_vars
    PROVE  Numbered'
<1> USE DEF RowsInv
<1>1. ASSUME NEW e \in Events, NEW a \in Aggregates, Enqueue(e, a)
      PROVE  Numbered'
  <2>1. /\ rows[e].status = "none"
        /\ \A k \in Before(Events, e) : rows[k].status # "none"
        /\ rows'[e] = [status |-> "staged", about |-> a, beside |-> Staged(a)]
        /\ \A k \in Events \ {e} : rows'[k] = rows[k]
        BY <1>1 DEF Enqueue, TypeOK
  <2> SUFFICES ASSUME NEW f \in Events, rows'[f].status # "none", NEW k \in Before(Events, f)
               PROVE  rows'[k].status # "none" /\ (Precedes(k, f)' => rows'[k].status # "staged")
      BY DEF Numbered
  <2>2. k \in Events /\ k < f /\ k # f
        BY OutboxAssumption DEF Before
  <2>3. CASE f = e
    <3>1. rows'[k] = rows[k] /\ rows[k].status # "none"
          BY <2>1, <2>2, <2>3
    <3>2. rows[k].status = "staged" /\ rows[k].about = a => k \in Staged(a)
          BY <2>2 DEF Staged
    <3> QED
        BY <2>1, <2>3, <3>1, <3>2 DEF Precedes
  <2>4. CASE f # e /\ k # e
        BY <2>1, <2>2, <2>4 DEF Numbered, Precedes
  <2>5. CASE f # e /\ k = e
        BY <2>1, <2>2, <2>5 DEF Numbered
  <2> QED
      BY <2>3, <2>4, <2>5
<1>2. ASSUME NEW e \in Events, NEW status \in {"pending", "rolledBack"},
             EndTransaction(e, status)
      PROVE  Numbered'
  <2>1. /\ rows[e].status = "staged" /\ rows'[e] = [rows[e] EXCEPT !.status = status]
        /\ rows[e] \in [status : Statuses, about : Aggregates, beside : SUBSET Events]
        /\ \A k \in Events \ {e} : rows'[k] = rows[k]
        BY <1>2 DEF EndTransaction, TypeOK
  <2> QED
      BY <2>1, NumberedKept
<1>3. ASSUME NEW d \in Drainers, CommitMarks(d)
      PROVE  Numbered'
  <2>1. \A e \in Events :
           /\ rows'[e].about = rows[e].about /\ rows'[e].beside = rows[e].beside
           /\ rows'[e].status = IF marks[d][e] # "none" THEN marks[d][e]
                                ELSE rows[e].status
        BY <1>3, WrittenRows DEF CommitMarks
  <2>2. \A e \in Events :
           /\ rows'[e].status = "none" <=> rows[e].status = "none"
           /\ rows'[e].status = "staged" => rows[e].status = "staged"
    <3> SUFFICES ASSUME NEW e \in Events, marks[d][e] # "none"
                 PROVE  rows[e].status # "none" /\ rows'[e].status \in {"sent", "error"}
        BY <2>1
    <3>1. rows[e].status # "none"
          BY DEF DrainsRows, Committed, Visible
    <3>2. marks[d][e] \in {"sent", "error"}
          BY DEF TypeOK
    <3> QED
        BY <2>1, <3>1, <3>2
  <2> QED
      BY <2>1, <2>2, NumberedKept
<1>4. CASE rows' = rows
      BY <1>4 DEF Numbered, Precedes, Before
<1>5. \/ rows' = rows
      \/ \E e \in Events, a \in Aggregates : Enqueue(e, a)
      \/ \E e \in Events, status \in {"pending", "rolledBack"} : EndTransaction(e, status)
      \/ \E d \in Drainers : CommitMarks(d)
      BY DEF Next, DrainStep, vars, Select, Published, PublishFails, CommitFails, Crash,
             Consume
<1> QED
    BY <1>1, <1>2, <1>3, <1>4, <1>5

\* What is committed when a transaction ends precedes nothing that has begun.
LEMMA NewcomersPrecedeNothing ==
    ASSUME Numbered, NEW e \in Committed, NEW k \in Events, Precedes(k, e),
           rows[k].status = "staged"
    PROVE  FALSE
<1>1. e \in Events /\ rows[e].status # "none" /\ k \in Before(Events, e)
      BY DEF Committed, Visible, Precedes, Before
<1> QED
    BY <1>1 DEF Numbered

\* A batch is a prefix of what is pending.
LEMMA BatchIsPrefix ==
    ASSUME NEW e \in Batch(Pending), NEW k \in Pending, k < e
    PROVE  k \in Batch(Pending)
<1>1. Pending \subseteq Events /\ e \in Pending /\ Cardinality(Before(Pending, e)) < Limit
      BY DEF Pending, Batch
<1>2. Before(Pending, k) \subseteq Before(Pending, e)
  <2> SUFFICES ASSUME NEW x \in Pending, x < k PROVE x < e
      BY DEF Before
  <2>1. x \in Nat /\ k \in Nat /\ e \in Nat
        BY <1>1, OutboxAssumption
  <2> QED
      BY <2>1
<1>3. Before(Pending, e) \subseteq Events
      BY <1>1 DEF Before
<1>4. IsFiniteSet(Before(Pending, e))
      BY <1>3, OutboxAssumption, FS_Subset
<1>5. Cardinality(Before(Pending, k)) <= Cardinality(Before(Pending, e))
      BY <1>2, <1>4, FS_Subset
<1>6. /\ Cardinality(Before(Pending, k)) \in Nat
      /\ Cardinality(Before(Pending, e)) \in Nat
      BY <1>2, <1>4, FS_Subset, FS_CardinalityType
<1> QED
    BY <1>1, <1>5, <1>6, OutboxAssumption DEF Batch

\* Where no batch grows and nothing new is committed before an event of one, the
\* batches stay in order.
LEMMA BatchesShrink ==
    ASSUME RowsInv, BatchInOrder,
           \A d \in Drainers : todo'[d] \subseteq todo[d],
           \A d \in Drainers : todo[d] \ todo'[d] \subseteq OnBus' \cup failed'
                               \/ todo'[d] = {},
           OnBus \subseteq OnBus', failed \subseteq failed',
           \A e \in Committed, k \in Committed' :
               Precedes(k, e)' => k \in Committed /\ Precedes(k, e)
    PROVE  BatchInOrder'
<1> SUFFICES ASSUME NEW d \in Drainers, NEW e \in todo'[d], NEW k \in Committed',
                    Precedes(k, e)'
             PROVE  k \in todo'[d] \/ k \in OnBus' \/ k \in failed'
    BY DEF BatchInOrder
<1>1. e \in todo[d] /\ e \in Committed
      BY DEF RowsInv, DrainsRows
<1>2. k \in Committed /\ Precedes(k, e)
      BY <1>1
<1>3. k \in todo[d] \/ k \in OnBus \/ k \in failed
      BY <1>1, <1>2 DEF BatchInOrder
<1> QED
    BY <1>3

\* The topic stays in order when nothing is added to it and nothing new is
\* committed before an event on it.
LEMMA TopicKept ==
    ASSUME RowsInv, AggregateInOrder, topic' = topic, failed \subseteq failed',
           \A e \in Committed, k \in Committed' :
               Precedes(k, e)' => k \in Committed /\ Precedes(k, e)
    PROVE  AggregateInOrder'
<1> SUFFICES ASSUME NEW i \in DOMAIN topic, NEW k \in Events, k < topic[i],
                    rows'[k].status \in Visible, rows'[k].about = rows'[topic[i]].about,
                    k \notin rows'[topic[i]].beside
             PROVE  k \in failed' \/ \E j \in 1..i : topic[j] = k
    BY DEF AggregateInOrder, Before
<1>1. topic[i] \in Committed
      BY DEF RowsInv, DrainsRows, OnBus, Elems
<1>2. k \in Committed' /\ Precedes(k, topic[i])'
      BY DEF Committed, Precedes
<1>3. k \in Committed /\ Precedes(k, topic[i])
      BY <1>1, <1>2
<1> QED
    BY <1>3 DEF AggregateInOrder, Before, Committed, Precedes

\* The topic stays in order when a drainer adds the first event of its batch.
LEMMA TopicGrows ==
    ASSUME RowsInv, BatchInOrder, AggregateInOrder, NEW d \in Drainers, pc[d] = "publish",
           topic' = Append(topic, First(todo[d])), rows' = rows, failed \subseteq failed'
    PROVE  AggregateInOrder'
<1>1. PICK e \in Events : e = First(todo[d])
      BY FirstIsTodo DEF RowsInv, Committed
<1>2. e \in todo[d] /\ \A k \in todo[d] : e <= k
      BY <1>1, FirstIsTodo DEF RowsInv
<1>3. /\ topic \in Seq(Events) /\ Len(topic) \in Nat
      /\ DOMAIN topic = 1..Len(topic) /\ DOMAIN topic' = 1..(Len(topic) + 1)
      /\ topic'[Len(topic) + 1] = e /\ \A j \in 1..Len(topic) : topic'[j] = topic[j]
      BY <1>1 DEF RowsInv, TypeOK
<1> SUFFICES ASSUME NEW i \in DOMAIN topic', NEW k \in Events, k < topic'[i],
                    rows[k].status \in Visible, rows[k].about = rows[topic'[i]].about,
                    k \notin rows[topic'[i]].beside
             PROVE  k \in failed' \/ \E j \in 1..i : topic'[j] = k
    BY DEF AggregateInOrder, Before
<1>4. CASE i \in DOMAIN topic
  <2>1. k \in failed \/ \E j \in 1..i : topic[j] = k
        BY <1>3, <1>4 DEF AggregateInOrder, Before
  <2>2. 1..i \subseteq 1..Len(topic)
        BY <1>3, <1>4
  <2> QED
      BY <1>3, <2>1, <2>2
<1>5. CASE i = Len(topic) + 1
  <2>1. k \in Committed /\ Precedes(k, e)
        BY <1>3, <1>5 DEF Committed, Precedes
  <2>2. k \in todo[d] \/ k \in OnBus \/ k \in failed
        BY <1>2, <2>1 DEF BatchInOrder
  <2>3. k \notin todo[d]
        BY <1>2, <2>1, OutboxAssumption DEF Precedes
  <2>4. k \in OnBus => \E j \in 1..i : topic'[j] = k
        BY <1>3, <1>5 DEF OnBus, Elems
  <2> QED
      BY <2>2, <2>3, <2>4
<1> QED
    BY <1>3, <1>4, <1>5

LEMMA OrderStep ==
    ASSUME RowsInv, OrderInv, [Next]_vars
    PROVE  OrderInv'
<1> USE DEF OrderInv
<1>1. Numbered'
      BY NumberedStep
<1>2. ASSUME NEW x \in Events, NEW a \in Aggregates, Enqueue(x, a)
      PROVE  BatchInOrder' /\ AggregateInOrder'
  <2>1. /\ rows[x].status = "none" /\ rows'[x].status = "staged"
        /\ \A k \in Events \ {x} : rows'[k] = rows[k]
        BY <1>2 DEF Enqueue, RowsInv, TypeOK
  <2>2. x \notin Committed /\ Committed' = Committed
        BY <2>1 DEF Committed, Visible
  <2>3. \A e \in Committed, k \in Committed' : Precedes(k, e)' => k \in Committed /\ Precedes(k, e)
    <3> SUFFICES ASSUME NEW e \in Committed, NEW k \in Committed'
                 PROVE  Precedes(k, e)' => k \in Committed /\ Precedes(k, e)
        OBVIOUS
    <3>1. rows'[e] = rows[e] /\ rows'[k] = rows[k] /\ k \in Committed
          BY <2>1, <2>2 DEF Committed
    <3> QED
        BY <3>1 DEF Precedes
  <2>4. UNCHANGED <<topic, failed, drains>> /\ OnBus' = OnBus
        BY <1>2 DEF Enqueue, OnBus
  <2> QED
      BY <2>3, <2>4, BatchesShrink, TopicKept DEF drains
<1>3. ASSUME NEW x \in Events, NEW status \in {"pending", "rolledBack"},
             EndTransaction(x, status)
      PROVE  BatchInOrder' /\ AggregateInOrder'
  <2>1. /\ rows[x].status = "staged" /\ rows'[x] = [rows[x] EXCEPT !.status = status]
        /\ rows[x] \in [status : Statuses, about : Aggregates, beside : SUBSET Events]
        /\ \A k \in Events \ {x} : rows'[k] = rows[k]
        BY <1>3 DEF EndTransaction, RowsInv, TypeOK
  <2>2. \A e \in Events : rows'[e].about = rows[e].about /\ rows'[e].beside = rows[e].beside
        BY <2>1
  <2>3. Committed' \subseteq Committed \cup {x}
        BY <2>1 DEF Committed
  <2>4. \A e \in Committed, k \in Committed' : Precedes(k, e)' => k \in Committed /\ Precedes(k, e)
    <3> SUFFICES ASSUME NEW e \in Committed, NEW k \in Committed', Precedes(k, e)'
                 PROVE  k \in Committed /\ Precedes(k, e)
        OBVIOUS
    <3>1. k \in Events /\ e \in Events
          BY DEF Committed
    <3>2. Precedes(k, e)
          BY <2>2, <3>1 DEF Precedes
    <3> QED
        BY <2>1, <2>3, <3>1, <3>2, NewcomersPrecedeNothing
  <2>5. UNCHANGED <<topic, failed, drains>> /\ OnBus' = OnBus
        BY <1>3 DEF EndTransaction, OnBus
  <2> QED
      BY <2>4, <2>5, BatchesShrink, TopicKept DEF drains
<1>4. ASSUME NEW d \in Drainers, Select(d)
      PROVE  BatchInOrder' /\ AggregateInOrder'
  <2>1. UNCHANGED <<rows, topic, failed>> /\ Committed' = Committed /\ OnBus' = OnBus
        BY <1>4 DEF Select, Committed, OnBus
  <2>2. todo'[d] = Batch(Pending) /\ \A c \in Drainers \ {d} : todo'[c] = todo[c]
        BY <1>4 DEF Select, RowsInv, TypeOK
  <2>3. ASSUME NEW c \in Drainers, NEW e \in todo'[c], NEW k \in Committed, Precedes(k, e)
        PROVE  k \in todo'[c] \/ k \in OnBus \/ k \in failed
    <3>1. CASE c # d
          BY <2>2, <2>3, <3>1 DEF BatchInOrder
    <3>2. CASE c = d /\ rows[k].status = "pending"
          BY <2>2, <2>3, <3>2, BatchIsPrefix DEF Precedes, Pending, Committed
    <3>3. CASE rows[k].status # "pending"
          BY <3>3 DEF RowsInv, RowsTrue, Committed, Visible
    <3> QED
        BY <3>1, <3>2, <3>3
  <2>4. BatchInOrder'
        BY <2>1, <2>3 DEF BatchInOrder, Precedes
  <2>5. AggregateInOrder'
        BY <2>1 DEF AggregateInOrder, Before
  <2> QED
      BY <2>4, <2>5
<1>5. ASSUME NEW d \in Drainers, Published(d) \/ PublishFails(d)
      PROVE  BatchInOrder' /\ AggregateInOrder'
  <2>1. PICK x \in Events : x = First(todo[d])
        BY <1>5, FirstIsTodo DEF Published, PublishFails, RowsInv, Committed
  <2>2. /\ pc[d] = "publish" /\ rows' = rows /\ failed \subseteq failed'
        /\ topic' = topic \/ topic' = Append(topic, x)
        /\ topic' = Append(topic, x) \/ x \in failed'
        /\ \E status \in {"sent", "error"} : Mark(d, x, status)
        BY <1>5, <2>1 DEF Published, PublishFails, MarkedFailed
  <2>3. OnBus \subseteq OnBus' /\ (x \in OnBus' \/ x \in failed')
    <3>1. Elems(Append(topic, x)) = Elems(topic) \cup {x}
          BY BusGrows DEF RowsInv, TypeOK
    <3> QED
        BY <2>2, <3>1 DEF OnBus
  <2>4. todo'[d] = todo[d] \ {x} /\ \A c \in Drainers \ {d} : todo'[c] = todo[c]
        BY <2>2, MarkEffect DEF RowsInv
  <2>5. Committed' = Committed
        BY <2>2 DEF Committed
  <2>6. \A e \in Committed, k \in Committed' : Precedes(k, e)' => k \in Committed /\ Precedes(k, e)
        BY <2>2, <2>5 DEF Precedes
  <2>7. BatchInOrder'
    <3>1. \A c \in Drainers : /\ todo'[c] \subseteq todo[c]
                              /\ todo[c] \ todo'[c] \subseteq OnBus' \cup failed'
          BY <2>3, <2>4
    <3> QED
        BY <2>2, <2>3, <2>6, <3>1, BatchesShrink
  <2>8. AggregateInOrder'
        BY <2>1, <2>2, <2>6, TopicKept, TopicGrows
  <2> QED
      BY <2>7, <2>8
<1>6. ASSUME NEW d \in Drainers, CommitMarks(d)
      PROVE  BatchInOrder' /\ AggregateInOrder'
  <2>1. /\ \A e \in Events : /\ rows'[e].about = rows[e].about
                             /\ rows'[e].beside = rows[e].beside
        /\ Committed' = Committed /\ UNCHANGED <<topic, failed>> /\ OnBus' = OnBus
        BY <1>6, WrittenRows DEF CommitMarks, RowsInv, OnBus
  <2>2. todo'[d] = {} /\ \A c \in Drainers \ {d} : todo'[c] = todo[c]
        BY <1>6, ForgetEffect DEF CommitMarks, RowsInv
  <2>3. \A e \in Committed, k \in Committed' : Precedes(k, e)' => k \in Committed /\ Precedes(k, e)
        BY <2>1 DEF Precedes, Committed
  <2> QED
      BY <2>1, <2>2, <2>3, BatchesShrink, TopicKept
<1>7. ASSUME NEW d \in Drainers, CommitFails(d) \/ Crash(d)
      PROVE  BatchInOrder' /\ AggregateInOrder'
  <2>1. UNCHANGED <<rows, topic, failed>> /\ Committed' = Committed /\ OnBus' = OnBus
        BY <1>7 DEF CommitFails, Crash, Committed, OnBus
  <2>2. todo'[d] = {} /\ \A c \in Drainers \ {d} : todo'[c] = todo[c]
        BY <1>7, ForgetEffect DEF CommitFails, Crash, RowsInv
  <2>3. \A e \in Committed, k \in Committed' : Precedes(k, e)' => k \in Committed /\ Precedes(k, e)
        BY <2>1 DEF Precedes
  <2> QED
      BY <2>1, <2>2, <2>3, BatchesShrink, TopicKept
<1>8. CASE Consume \/ UNCHANGED vars
  <2>1. UNCHANGED <<rows, topic, failed, todo>>
        BY <1>8 DEF Consume, vars, drains
  <2>2. BatchInOrder'
        BY <2>1 DEF BatchInOrder, Precedes, Committed, OnBus
  <2>3. AggregateInOrder'
        BY <2>1 DEF AggregateInOrder, Before
  <2> QED
      BY <1>1, <2>2, <2>3
<1> QED
    BY <1>1, <1>2, <1>3, <1>4, <1>5, <1>6, <1>7, <1>8 DEF Next, DrainStep

\* Two drainers that take the same rows, fail and crash repeat events but do not
\* swap those of one aggregate: only an event whose publish call failed, or whose
\* transaction was open beside the other's, is overtaken.
THEOREM AggregatesStayInOrder == Spec => []AggregateInOrder
<1>1. Init => OrderInv
      BY DEF Init, OrderInv, Numbered, BatchInOrder, AggregateInOrder
<1>2. RowsInv /\ OrderInv /\ [Next]_vars => OrderInv'
      BY OrderStep
<1>3. OrderInv => AggregateInOrder
      BY DEF OrderInv
<1> QED
    BY <1>1, <1>2, <1>3, RowsInvariant, PTL DEF Spec

-----------------------------------------------------------------------------
(* The ring buffer.                                                        *)

\* Nothing is in an empty ring.
LEMMA EmptyRing == Elems(<<>>) = {} /\ Len(<<>>) = 0
<1>1. DOMAIN <<>> = {} /\ Len(<<>>) = 0
      OBVIOUS
<1> QED
    BY <1>1 DEF Elems

\* What a message in front does to the ring.
LEMMA Prepended ==
    ASSUME NEW s \in Seq(Events), NEW e \in Events
    PROVE  /\ <<e>> \o s \in Seq(Events)
           /\ Len(<<e>> \o s) = Len(s) + 1
           /\ Elems(<<e>> \o s) = Elems(s) \cup {e}
<1> DEFINE t == <<e>> \o s
<1>1. <<e>> \in Seq(Events) /\ Len(<<e>>) = 1 /\ <<e>>[1] = e
      OBVIOUS
<1>2. Len(s) \in Nat /\ DOMAIN s = 1..Len(s)
      OBVIOUS
<1>3. /\ t \in Seq(Events)
      /\ Len(t) = 1 + Len(s)
      /\ \A i \in 1..1 + Len(s) : t[i] = IF i <= 1 THEN <<e>>[i] ELSE s[i - 1]
      BY <1>1, ConcatProperties
<1> HIDE DEF t
<1>4. DOMAIN t = 1..1 + Len(s)
      BY <1>3
<1>5. t[1] = e /\ 1 \in DOMAIN t
      BY <1>1, <1>2, <1>3, <1>4
<1>6. ASSUME NEW i \in 1..Len(s)
      PROVE  t[i + 1] = s[i] /\ i + 1 \in DOMAIN t
      BY <1>2, <1>3, <1>4
<1>7. ASSUME NEW i \in DOMAIN t
      PROVE  t[i] = e \/ \E j \in DOMAIN s : t[i] = s[j]
  <2>1. CASE i = 1
        BY <1>5, <2>1
  <2>2. CASE i # 1
    <3>1. i - 1 \in DOMAIN s /\ t[i] = s[i - 1]
          BY <1>2, <1>3, <1>4, <2>2
    <3> QED
        BY <3>1
  <2> QED
      BY <2>1, <2>2
<1>8. Elems(t) \subseteq Elems(s) \cup {e}
      BY <1>7 DEF Elems
<1>9. Elems(s) \cup {e} \subseteq Elems(t)
      BY <1>2, <1>5, <1>6 DEF Elems
<1>10. Len(t) = Len(s) + 1
      BY <1>2, <1>3
<1> QED
    BY <1>3, <1>8, <1>9, <1>10 DEF t

\* Appending an event that the ring does not hold counts it once.
LEMMA FeedAppends ==
    ASSUME TypeOK, FeedInv, NEW e \in Events, AppendEvent(e)
    PROVE  FeedInv'
<1>1. /\ feed \in Seq(Events) /\ Len(feed) \in Nat /\ Len(feed) <= RingSize
      /\ counted \in Nat /\ RingSize \in Nat
      BY OutboxAssumption DEF TypeOK
<1>2. CASE e \in Elems(feed)
      BY <1>2 DEF AppendEvent, FeedInv, FeedCountsOnce
<1>3. CASE e \notin Elems(feed) /\ Len(feed) < RingSize
  <2>1. feed' = <<e>> \o feed /\ counted' = counted + 1
        BY <1>3 DEF AppendEvent, Pushed
  <2>2. Len(feed') = Len(feed) + 1 /\ Elems(feed') = Elems(feed) \cup {e}
        BY <1>1, <2>1, Prepended
  <2>3. IsFiniteSet(Elems(feed))
    <3>1. Elems(feed) \subseteq Events
          BY <1>1 DEF Elems
    <3> QED
        BY <3>1, FS_Subset, OutboxAssumption
  <2>4. /\ Cardinality(Elems(feed')) = Cardinality(Elems(feed)) + 1
        /\ Cardinality(Elems(feed)) \in Nat
        BY <1>3, <2>2, <2>3, FS_AddElement, FS_CardinalityType
  <2>5. Len(feed') <= counted'
        BY <1>1, <2>1, <2>2 DEF FeedInv
  <2>6. ASSUME counted' <= RingSize
        PROVE  counted' = Len(feed') /\ Cardinality(Elems(feed')) = Len(feed')
    <3>1. counted = Len(feed) /\ Cardinality(Elems(feed)) = Len(feed)
          BY <1>1, <2>1, <2>6 DEF FeedInv, FeedCountsOnce
    <3> QED
        BY <1>1, <2>1, <2>2, <2>4, <3>1
  <2>7. FeedCountsOnce'
        BY <2>6 DEF FeedCountsOnce
  <2> QED
      BY <2>5, <2>7 DEF FeedInv
<1>4. CASE e \notin Elems(feed) /\ Len(feed) = RingSize
  <2>1. counted' = counted + 1 /\ RingSize <= counted
        BY <1>4 DEF AppendEvent, FeedInv
  <2>2. Len(feed') <= RingSize /\ Len(feed') \in Nat
        BY <1>1, AppendTyped
  <2>3. ~(counted' <= RingSize) /\ Len(feed') <= counted'
        BY <1>1, <2>1, <2>2
  <2> QED
      BY <2>3 DEF FeedInv, FeedCountsOnce
<1> QED
    BY <1>1, <1>2, <1>3, <1>4 DEF TypeOK

\* The ring is touched by the drain endpoint, by the consumer, which both append,
\* and by a crash, which empties it.
LEMMA FeedStep ==
    ASSUME RowsInv, FeedInv, [Next]_vars
    PROVE  FeedInv'
<1> USE DEF RowsInv
<1>1. ASSUME NEW d \in Drainers, Published(d)
      PROVE  FeedInv'
  <2>1. CASE d = "api"
        BY <1>1, <2>1, FirstIsTodo, FeedAppends DEF Published, Committed
  <2>2. CASE d # "api"
        BY <1>1, <2>2 DEF Published, FeedInv, FeedCountsOnce
  <2> QED
      BY <2>1, <2>2
<1>2. CASE Consume
  <2>1. topic[position + 1] \in Events
        BY <1>2 DEF Consume, TypeOK
  <2> QED
      BY <1>2, <2>1, FeedAppends DEF Consume
<1>3. ASSUME NEW d \in Drainers, Crash(d)
      PROVE  FeedInv'
  <2>1. CASE feed' = <<>> /\ counted' = 0
    <3> QED
        BY <2>1, EmptyRing, FS_EmptySet DEF FeedInv, FeedCountsOnce
  <2>2. CASE feed' = feed /\ counted' = counted
        BY <2>2 DEF FeedInv, FeedCountsOnce
  <2> QED
      BY <1>3, <2>1, <2>2 DEF Crash
<1>4. CASE UNCHANGED <<feed, counted>>
      BY <1>4 DEF FeedInv, FeedCountsOnce
<1>5. \/ UNCHANGED <<feed, counted>> \/ Consume
      \/ \E d \in Drainers : Published(d) \/ Crash(d)
      BY DEF Next, DrainStep, vars, consumer, Enqueue, EndTransaction, Select, PublishFails,
             CommitMarks, CommitFails
<1> QED
    BY <1>1, <1>2, <1>3, <1>4, <1>5

\* EventBusBuffer.append looks for the event's id, so the feed counts and shows
\* an event once though it comes from the drain endpoint and from the consumer,
\* and again after a crash, until the ring is full.
THEOREM FeedCountsEachOnce == Spec => []FeedCountsOnce
<1>1. Init => FeedInv
  <2>1. Init => feed = <<>> /\ counted = 0
        BY DEF Init
  <2>2. Len(<<>>) = 0 /\ Cardinality(Elems(<<>>)) = 0
        BY EmptyRing, FS_EmptySet
  <2>3. feed = <<>> /\ counted = 0 => FeedInv
        BY <2>2 DEF FeedInv, FeedCountsOnce
  <2> QED
      BY <2>1, <2>3
<1>2. RowsInv /\ FeedInv /\ [Next]_vars => FeedInv'
      BY FeedStep
<1>3. FeedInv => FeedCountsOnce
      BY DEF FeedInv
<1> QED
    BY <1>1, <1>2, <1>3, RowsInvariant, PTL DEF Spec

=============================================================================
