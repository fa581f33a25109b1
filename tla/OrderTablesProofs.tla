------------------------- MODULE OrderTablesProofs -------------------------
(***************************************************************************)
(* More proofs about Orders: what the tables of one order tell about each  *)
(* other and about the brokers' books.  Three inductive invariants, for    *)
(* any constants: BackInv (an order row is backed by an attempt and by the *)
(* book), TrailInv (the failovers) and SightedInv (what holds of an order  *)
(* that no recovery took up blindly).                                      *)
(***************************************************************************)
EXTENDS OrdersProofs

Cancelling == {"cancelLocally", "cancelAtBroker", "recordCancel"}
Recovering == {"lookup", "adopt"}
Busy       == Submitting \cup Cancelling \cup Recovering
Attempting == {"send", "record"}
Walking    == {"consume", "attempt", "send", "record", "failover"}

\* A submitted attempt names an order that the broker's book has for it.
AttemptsBacked ==
    \A o \in Orders : \A i \in SubmittedAttempts(o) :
        attempts[o][i].bo \in DOMAIN book /\ book[attempts[o][i].bo].order = o

\* The attempt of a task that waits for the broker is its own, and open.
AttemptsOwned ==
    \A t \in Tasks : pc[t] \in Attempting =>
        /\ attempts[cur[t]][local[t].att].status = "submitting"
        /\ \A u \in Tasks :
              /\ pc[u] \in Attempting
              /\ cur[u] = cur[t]
              /\ local[u].att = local[t].att
              => u = t

\* What a task has loaded of its order, however old, is not all wrong.
KnowsOK(t) ==
    /\ \A o \in local[t].todo : ~IsNew(o)
    /\ pc[t] \in Busy => ~IsNew(cur[t])
    /\ pc[t] \in Busy \ {"record"} /\ local[t].view.bo # 0 => row[cur[t]].bo # 0
    /\ pc[t] = "record" => /\ local[t].view.bo \in DOMAIN book
                           /\ book[local[t].view.bo].order = cur[t]
    /\ pc[t] \in Recovering => local[t].view.status \notin Terminal
    /\ pc[t] = "adopt" => local[t].att \in SubmittedAttempts(cur[t])
    /\ pc[t] \in Cancelling => local[t].view.status # "CANCELLED"
KnowledgeOK == \A t \in Tasks : KnowsOK(t)

BackInv == AttemptsBacked /\ AttemptsOwned /\ KnowledgeOK /\ RowBackedByAttempt
-----------------------------------------------------------------------------
(* What each action does, field by field.                                  *)

\* The fields of a frame after one of them is set.
LEMMA FrameKept ==
    ASSUME NEW f \in Frame
    PROVE  /\ \A v \in Row : LET g == [f EXCEPT !.view = v] IN
                 g.view = v /\ g.chain = f.chain /\ g.idx = f.idx /\ g.att = f.att
           /\ \A c \in Seq(Brokers) : LET g == [f EXCEPT !.chain = c] IN
                 g.view = f.view /\ g.chain = c /\ g.idx = f.idx /\ g.att = f.att
           /\ \A n \in Nat : LET g == [f EXCEPT !.idx = n] IN
                 g.view = f.view /\ g.chain = f.chain /\ g.idx = n /\ g.att = f.att
           /\ \A n \in Nat : LET g == [f EXCEPT !.att = n] IN
                 g.view = f.view /\ g.chain = f.chain /\ g.idx = f.idx /\ g.att = n
           /\ \A S \in SUBSET Orders : LET g == [f EXCEPT !.todo = S] IN
                 g.view = f.view /\ g.chain = f.chain /\ g.idx = f.idx /\ g.att = f.att
BY DEF Frame

\* A task that returns works on nothing.
LEMMA ReturnEffect ==
    ASSUME TasksOK, NEW t \in Tasks, Return(t)
    PROVE  /\ pc'[t] \in {"idle", "next"} /\ cur'[t] = None
           /\ \A u \in Tasks \ {t} : pc'[u] = pc[u] /\ cur'[u] = cur[u] /\ local'[u] = local[u]
BY DEF TasksOK, Return

\* A task that goes on with its order and its frame.
LEMMA GotoEffect ==
    ASSUME TasksOK, NEW t \in Tasks, NEW p, Goto(t, p)
    PROVE  pc'[t] = p /\ \A u \in Tasks \ {t} : pc'[u] = pc[u]
BY DEF TasksOK, Goto

\* The columns of an order row after a commit: what the session changed is
\* written, the rest stays as it is stored.
LEMMA CommitEffect ==
    ASSUME StoreOK, NEW t \in Tasks, cur[t] \in Orders, NEW n, CommitRow(t, n)
    PROVE  /\ row'[cur[t]].status = IF n.status # local[t].view.status THEN n.status
                                    ELSE row[cur[t]].status
           /\ row'[cur[t]].broker = IF n.broker # local[t].view.broker THEN n.broker
                                    ELSE row[cur[t]].broker
           /\ row'[cur[t]].bo = IF n.bo # local[t].view.bo THEN n.bo ELSE row[cur[t]].bo
           /\ \A o \in Orders : o # cur[t] => row'[o] = row[o]
<1>1. row'[cur[t]] = Flush(row[cur[t]], local[t].view, n)
      BY DEF CommitRow, StoreOK
<1> QED
    BY <1>1 DEF CommitRow, StoreOK, Flush

\* A row whose status alone changes.
LEMMA StatusChanged ==
    ASSUME NEW v \in Row, NEW s \in Statuses
    PROVE  LET n == [v EXCEPT !.status = s] IN
           n.status = s /\ n.broker = v.broker /\ n.bo = v.bo
BY DEF Row

GivesUp(t) == RejectRateLimited(t) \/ RejectOrder(t) \/ Exhaust(t)
Cancels(t) == CancelLocally(t) \/ RecordCancel(t)

\* An order fails: its status, unless the task has loaded that status.
LEMMA GiveUpEffect ==
    ASSUME StoreOK, TasksOK, NEW t \in Tasks, GivesUp(t)
    PROVE  /\ cur[t] \in Orders /\ pc[t] \in {"consume", "reject"} /\ Return(t)
           /\ row'[cur[t]].status = IF local[t].view.status # "FAILED" THEN "FAILED"
                                    ELSE row[cur[t]].status
           /\ row'[cur[t]].broker = row[cur[t]].broker /\ row'[cur[t]].bo = row[cur[t]].bo
           /\ \A o \in Orders : o # cur[t] => row'[o] = row[o]
           /\ UNCHANGED <<attempts, failovers, events, book>>
<1> DEFINE n == [local[t].view EXCEPT !.status = "FAILED"]
<1>1. /\ pc[t] \in {"consume", "reject"} /\ CommitRow(t, n) /\ Return(t)
      /\ UNCHANGED <<attempts, failovers, events, book>>
      BY DEF GivesUp, RejectRateLimited, RejectOrder, Exhaust
<1>2. cur[t] \in Orders
      BY <1>1, AtWork
<1>3. n.status = "FAILED" /\ n.broker = local[t].view.broker /\ n.bo = local[t].view.bo
      BY FrameFields, StatusChanged DEF Statuses
<1> HIDE DEF n
<1> QED
    BY <1>1, <1>2, <1>3, CommitEffect

\* An order is cancelled: its status, and an event.
LEMMA CancelsEffect ==
    ASSUME StoreOK, TasksOK, NEW t \in Tasks, Cancels(t)
    PROVE  /\ cur[t] \in Orders /\ pc[t] \in {"cancelLocally", "recordCancel"} /\ Return(t)
           /\ CancelLocally(t) => pc[t] = "cancelLocally"
           /\ row'[cur[t]].status = IF local[t].view.status # "CANCELLED" THEN "CANCELLED"
                                    ELSE row[cur[t]].status
           /\ row'[cur[t]].broker = row[cur[t]].broker /\ row'[cur[t]].bo = row[cur[t]].bo
           /\ \A o \in Orders : o # cur[t] => row'[o] = row[o]
           /\ events' = [events EXCEPT ![cur[t]] = Append(@, "cancelled")]
           /\ UNCHANGED <<attempts, failovers, book>>
<1> DEFINE n == [local[t].view EXCEPT !.status = "CANCELLED"]
<1>1. /\ pc[t] \in {"cancelLocally", "recordCancel"} /\ CommitRow(t, n) /\ Return(t)
      /\ CancelLocally(t) => pc[t] = "cancelLocally"
      /\ events' = [events EXCEPT ![cur[t]] = Append(@, "cancelled")]
      /\ UNCHANGED <<attempts, failovers, book>>
      BY DEF Cancels, CancelLocally, RecordCancel, CommitCancel, Emit
<1>2. cur[t] \in Orders
      BY <1>1, AtWork
<1>3. n.status = "CANCELLED" /\ n.broker = local[t].view.broker /\ n.bo = local[t].view.bo
      BY FrameFields, StatusChanged DEF Statuses
<1> HIDE DEF n
<1> QED
    BY <1>1, <1>2, <1>3, CommitEffect

\* The order row is inserted.
LEMMA InsertEffect ==
    ASSUME StoreOK, TasksOK, NEW t \in Tasks, Insert(t)
    PROVE  /\ cur[t] \in Orders /\ cur'[t] = cur[t] /\ pc[t] = "insert" /\ pc'[t] = "route"
           /\ IsNew(cur[t])
           /\ row'[cur[t]].status = "CREATED" /\ row'[cur[t]].broker = None
           /\ row'[cur[t]].bo = 0
           /\ local'[t].view = row'[cur[t]]
           /\ \A o \in Orders : o # cur[t] => row'[o] = row[o]
           /\ \A u \in Tasks \ {t} : pc'[u] = pc[u] /\ cur'[u] = cur[u] /\ local'[u] = local[u]
           /\ UNCHANGED <<attempts, failovers, events, book>>
<1> DEFINE created == [AbsentRow EXCEPT !.status = "CREATED"]
           f == [local[t] EXCEPT !.view = created]
<1>1. /\ pc[t] = "insert" /\ IsNew(cur[t]) /\ row' = [row EXCEPT ![cur[t]] = created]
      /\ local' = [local EXCEPT ![t] = f] /\ Goto(t, "route") /\ cur' = cur
      /\ UNCHANGED <<attempts, failovers, events, book>>
      BY DEF Insert
<1>2. created \in Row /\ cur[t] \in Orders
      BY <1>1, IdleFrameType, RowUpdates, AtWork DEF Statuses
<1>3. created.status = "CREATED" /\ created.broker = None /\ created.bo = 0
      BY DEF AbsentRow
<1> HIDE DEF created
<1>4. f.view = created
      BY <1>2, FrameFields, FrameKept
<1> HIDE DEF f
<1>5. /\ local'[t] = f /\ row'[cur[t]] = created
      /\ \A o \in Orders : o # cur[t] => row'[o] = row[o]
      /\ \A u \in Tasks \ {t} : local'[u] = local[u]
      BY <1>1, <1>2 DEF TasksOK, StoreOK
<1> QED
    BY <1>1, <1>2, <1>3, <1>4, <1>5, GotoEffect

\* An attempt starts: its row is appended, the order row names its broker.
LEMMA StartAttemptEffect ==
    ASSUME StoreOK, TasksOK, NEW t \in Tasks, StartAttempt(t)
    PROVE  /\ cur[t] \in Orders /\ cur'[t] = cur[t] /\ pc[t] = "attempt" /\ pc'[t] = "send"
           /\ InChain(t) /\ Candidate(t) \in Brokers /\ local[t].idx \in Nat
           /\ row'[cur[t]].status = IF local[t].view.status # "SUBMITTING" THEN "SUBMITTING"
                                    ELSE row[cur[t]].status
           /\ row'[cur[t]].broker = IF local[t].view.broker # Candidate(t) THEN Candidate(t)
                                    ELSE row[cur[t]].broker
           /\ row'[cur[t]].bo = row[cur[t]].bo
           /\ \A o \in Orders : o # cur[t] => row'[o] = row[o]
           /\ attempts' = [attempts EXCEPT ![cur[t]] =
                             Append(@, [no |-> local[t].idx, broker |-> Candidate(t),
                                        status |-> "submitting", bo |-> 0])]
           /\ local'[t].view.status = "SUBMITTING" /\ local'[t].view.broker = Candidate(t)
           /\ local'[t].view.bo = local[t].view.bo
           /\ local'[t].chain = local[t].chain /\ local'[t].idx = local[t].idx
           /\ local'[t].att = Len(attempts[cur[t]]) + 1
           /\ \A u \in Tasks \ {t} : pc'[u] = pc[u] /\ cur'[u] = cur[u] /\ local'[u] = local[u]
           /\ UNCHANGED <<failovers, events, book>>
<1> DEFINE v == Attempted(t)
           n == Len(attempts[cur[t]]) + 1
           g == [local[t] EXCEPT !.view = v]
           f == [g EXCEPT !.att = n]
<1>1. cur[t] \in Orders /\ InChain(t) /\ local[t].idx >= 1 /\ pc[t] = "attempt"
      BY AtWork DEF StartAttempt, TasksOK, FramesOK, FrameOK
<1>2. Candidate(t) \in Brokers
      BY <1>1, CandidateType
<1>3. /\ v \in Row /\ v.status = "SUBMITTING" /\ v.broker = Candidate(t)
      /\ v.bo = local[t].view.bo
      BY <1>2, FrameFields DEF Attempted, Row, Statuses
<1>4. n \in Nat
      BY <1>1 DEF StoreOK
<1>5. /\ attempts' = [attempts EXCEPT ![cur[t]] =
                        Append(@, [no |-> local[t].idx, broker |-> Candidate(t),
                                   status |-> "submitting", bo |-> 0])]
      /\ CommitRow(t, v) /\ local' = [local EXCEPT ![t] = f] /\ Goto(t, "send")
      /\ cur' = cur /\ UNCHANGED <<failovers, events, book>>
      BY DEF StartAttempt
<1> HIDE DEF v, n
<1>6. g \in Frame /\ g.view = v /\ g.chain = local[t].chain /\ g.idx = local[t].idx
      BY <1>3, FrameFields, FrameUpdates, FrameKept
<1> HIDE DEF g
<1>7. f.view = v /\ f.chain = local[t].chain /\ f.idx = local[t].idx /\ f.att = n
      BY <1>4, <1>6, FrameKept
<1> HIDE DEF f
<1>8. local'[t] = f /\ \A u \in Tasks \ {t} : local'[u] = local[u]
      BY <1>5 DEF TasksOK
<1>9. /\ row'[cur[t]].status = IF local[t].view.status # "SUBMITTING" THEN "SUBMITTING"
                               ELSE row[cur[t]].status
      /\ row'[cur[t]].broker = IF local[t].view.broker # Candidate(t) THEN Candidate(t)
                               ELSE row[cur[t]].broker
      /\ row'[cur[t]].bo = row[cur[t]].bo
      /\ \A o \in Orders : o # cur[t] => row'[o] = row[o]
  <2>1. /\ row'[cur[t]].status = IF v.status # local[t].view.status THEN v.status
                                 ELSE row[cur[t]].status
        /\ row'[cur[t]].broker = IF v.broker # local[t].view.broker THEN v.broker
                                 ELSE row[cur[t]].broker
        /\ row'[cur[t]].bo = IF v.bo # local[t].view.bo THEN v.bo ELSE row[cur[t]].bo
        /\ \A o \in Orders : o # cur[t] => row'[o] = row[o]
        BY <1>1, <1>5, CommitEffect
  <2> QED
      BY <1>3, <2>1
<1>10. local[t].idx \in Nat
       BY FrameFields
<1> QED
    BY <1>1, <1>2, <1>3, <1>5, <1>7, <1>8, <1>9, <1>10, GotoEffect DEF n

\* A broker accepts: the book grows by one line, which the task remembers.
LEMMA AcceptEffect ==
    ASSUME StoreOK, TasksOK, NEW t \in Tasks, BrokerAccepts(t)
    PROVE  /\ cur[t] \in Orders /\ cur'[t] = cur[t] /\ pc[t] = "send" /\ pc'[t] = "record"
           /\ Candidate(t) \in Brokers
           /\ DOMAIN book' = DOMAIN book \cup {Len(book) + 1}
           /\ Len(book) + 1 \notin DOMAIN book
           /\ \A i \in DOMAIN book : book'[i] = book[i]
           /\ book'[Len(book) + 1].order = cur[t]
           /\ book'[Len(book) + 1].broker = Candidate(t)
           /\ local'[t].view.status = local[t].view.status
           /\ local'[t].view.broker = local[t].view.broker
           /\ local'[t].view.bo = Len(book) + 1
           /\ local'[t].chain = local[t].chain /\ local'[t].idx = local[t].idx
           /\ local'[t].att = local[t].att
           /\ \A u \in Tasks \ {t} : pc'[u] = pc[u] /\ cur'[u] = cur[u] /\ local'[u] = local[u]
           /\ UNCHANGED <<row, attempts, failovers, events>>
<1> DEFINE n == Len(book) + 1
           v == [local[t].view EXCEPT !.bo = n]
           f == [local[t] EXCEPT !.view = v]
           listing == [order |-> cur[t], broker |-> Candidate(t), status |-> "accepted"]
<1>1. /\ pc[t] = "send" /\ book' = Append(book, listing)
      /\ local' = [local EXCEPT ![t] = f] /\ Goto(t, "record") /\ cur' = cur
      /\ UNCHANGED <<row, attempts, failovers, events>>
      BY DEF BrokerAccepts, db
<1>2. cur[t] \in Orders /\ InChain(t) /\ local[t].idx >= 1
      BY <1>1, AtWork DEF TasksOK, FramesOK, FrameOK
<1>3. Candidate(t) \in Brokers
      BY <1>2, CandidateType
<1>4. book \in Seq(Listing) /\ n \in Nat
      BY DEF StoreOK
<1>5. listing.order = cur[t] /\ listing.broker = Candidate(t)
      OBVIOUS
<1> HIDE DEF listing
<1>6. /\ DOMAIN book' = DOMAIN book \cup {n} /\ n \notin DOMAIN book
      /\ \A i \in DOMAIN book : book'[i] = book[i]
      /\ book'[n] = listing
      BY <1>1, <1>4
<1>7. /\ v \in Row /\ v.status = local[t].view.status /\ v.broker = local[t].view.broker
      /\ v.bo = n
  <2>1. local[t].view \in Row
        BY FrameFields
  <2> HIDE DEF n
  <2>2. \A r \in Row : LET w == [r EXCEPT !.bo = n] IN
           w \in Row /\ w.status = r.status /\ w.broker = r.broker /\ w.bo = n
        BY <1>4 DEF Row
  <2> QED
      BY <2>1, <2>2
<1> HIDE DEF v
<1>8. /\ f.view = v /\ f.chain = local[t].chain /\ f.idx = local[t].idx
      /\ f.att = local[t].att
      BY <1>7, FrameFields, FrameKept
<1> HIDE DEF f, n
<1>9. local'[t] = f /\ \A u \in Tasks \ {t} : local'[u] = local[u]
      BY <1>1 DEF TasksOK
<1> QED
    BY <1>1, <1>2, <1>3, <1>5, <1>6, <1>7, <1>8, <1>9, GotoEffect DEF n

\* The acceptance is recorded: the attempt, the order row and the event.
LEMMA RecordEffect ==
    ASSUME StoreOK, TasksOK, NEW t \in Tasks, RecordSuccess(t)
    PROVE  /\ cur[t] \in Orders /\ pc[t] = "record" /\ Return(t)
           /\ local[t].att \in DOMAIN attempts[cur[t]]
           /\ row'[cur[t]].status = "SUBMITTED" /\ row'[cur[t]].broker = row[cur[t]].broker
           /\ row'[cur[t]].bo = local[t].view.bo
           /\ \A o \in Orders : o # cur[t] => row'[o] = row[o]
           /\ \A o \in Orders : DOMAIN attempts'[o] = DOMAIN attempts[o]
           /\ \A o \in Orders : \A i \in DOMAIN attempts[o] :
                 o # cur[t] \/ i # local[t].att => attempts'[o][i] = attempts[o][i]
           /\ LET a == attempts[cur[t]][local[t].att]
                  b == attempts'[cur[t]][local[t].att] IN
              b.status = "submitted" /\ b.bo = local[t].view.bo
              /\ b.no = a.no /\ b.broker = a.broker
           /\ events' = [events EXCEPT ![cur[t]] = Append(@, "submitted")]
           /\ UNCHANGED <<failovers, book>>
<1> DEFINE i == local[t].att
           bo == local[t].view.bo
           a == attempts[cur[t]][i]
           b == Submitted(a, bo)
           r == [[row[cur[t]] EXCEPT !.status = "SUBMITTED"] EXCEPT !.bo = bo]
<1>1. /\ pc[t] = "record" /\ attempts' = [attempts EXCEPT ![cur[t]][i] = b]
      /\ row' = [row EXCEPT ![cur[t]] = r] /\ Return(t)
      /\ events' = [events EXCEPT ![cur[t]] = Append(@, "submitted")]
      /\ UNCHANGED <<failovers, book>>
      BY DEF RecordSuccess, Emit
<1>2. cur[t] \in Orders /\ i \in DOMAIN attempts[cur[t]] /\ bo \in Nat
      BY <1>1, AtWork, FrameFields DEF TasksOK, FramesOK, FrameOK, Row
<1>3. a \in Attempt /\ row[cur[t]] \in Row
      BY <1>2 DEF StoreOK
<1>4. b.status = "submitted" /\ b.bo = bo /\ b.no = a.no /\ b.broker = a.broker
  <2> HIDE DEF a, bo
  <2> QED
      BY <1>2, <1>3 DEF Submitted, Attempt
<1>5. r.status = "SUBMITTED" /\ r.bo = bo /\ r.broker = row[cur[t]].broker
  <2> HIDE DEF bo
  <2> QED
      BY <1>2, <1>3 DEF Row
<1> HIDE DEF b, r
<1>6. row'[cur[t]] = r /\ \A o \in Orders : o # cur[t] => row'[o] = row[o]
      BY <1>1, <1>2 DEF StoreOK
<1>7. /\ \A o \in Orders : DOMAIN attempts'[o] = DOMAIN attempts[o]
      /\ \A o \in Orders : \A j \in DOMAIN attempts[o] :
            attempts'[o][j] = IF o = cur[t] /\ j = i THEN b ELSE attempts[o][j]
      BY <1>1, <1>2 DEF StoreOK
<1>8. attempts'[cur[t]][i] = b
      BY <1>2, <1>7
<1> QED
    BY <1>1, <1>2, <1>4, <1>5, <1>6, <1>7, <1>8

\* An attempt fails.
LEMMA AttemptFailsEffect ==
    ASSUME StoreOK, TasksOK, NEW t \in Tasks, AttemptFails(t)
    PROVE  /\ cur[t] \in Orders /\ cur'[t] = cur[t] /\ local'[t] = local[t]
           /\ pc[t] = "send" /\ pc'[t] \in {"failover", "reject"}
           /\ local[t].att \in DOMAIN attempts[cur[t]]
           /\ \A o \in Orders : DOMAIN attempts'[o] = DOMAIN attempts[o]
           /\ \A o \in Orders : \A i \in DOMAIN attempts[o] :
                 o # cur[t] \/ i # local[t].att => attempts'[o][i] = attempts[o][i]
           /\ LET a == attempts[cur[t]][local[t].att]
                  b == attempts'[cur[t]][local[t].att] IN
              b.status = "failed" /\ b.no = a.no /\ b.broker = a.broker
           /\ \A u \in Tasks \ {t} : pc'[u] = pc[u] /\ cur'[u] = cur[u] /\ local'[u] = local[u]
           /\ UNCHANGED <<row, failovers, events, book>>
<1> DEFINE i == local[t].att
           a == attempts[cur[t]][i]
           b == [a EXCEPT !.status = "failed"]
<1>1. /\ pc[t] = "send" /\ attempts' = [attempts EXCEPT ![cur[t]][i] = b]
      /\ Goto(t, "failover") \/ Goto(t, "reject")
      /\ cur' = cur /\ local' = local /\ UNCHANGED <<row, failovers, events, book>>
      BY DEF AttemptFails
<1>2. cur[t] \in Orders /\ i \in DOMAIN attempts[cur[t]]
      BY <1>1, AtWork DEF TasksOK, FramesOK, FrameOK
<1>3. a \in Attempt
      BY <1>2 DEF StoreOK
<1>4. b.status = "failed" /\ b.no = a.no /\ b.broker = a.broker
  <2> HIDE DEF a
  <2> QED
      BY <1>3 DEF Attempt
<1> HIDE DEF b
<1>5. /\ \A o \in Orders : DOMAIN attempts'[o] = DOMAIN attempts[o]
      /\ \A o \in Orders : \A j \in DOMAIN attempts[o] :
            attempts'[o][j] = IF o = cur[t] /\ j = i THEN b ELSE attempts[o][j]
      BY <1>1, <1>2 DEF StoreOK
<1>6. attempts'[cur[t]][i] = b
      BY <1>2, <1>5
<1>7. pc'[t] \in {"failover", "reject"} /\ \A u \in Tasks \ {t} : pc'[u] = pc[u]
      BY <1>1, GotoEffect
<1> QED
    BY <1>1, <1>2, <1>4, <1>5, <1>6, <1>7

\* Recovery adopts what an attempt recorded.
LEMMA AdoptEffect ==
    ASSUME StoreOK, TasksOK, NEW t \in Tasks, Adopt(t)
    PROVE  /\ cur[t] \in Orders /\ pc[t] = "adopt" /\ Return(t)
           /\ local[t].att \in DOMAIN attempts[cur[t]]
           /\ LET a == attempts[cur[t]][local[t].att] IN
              /\ row'[cur[t]].status = IF local[t].view.status # "SUBMITTED" THEN "SUBMITTED"
                                       ELSE row[cur[t]].status
              /\ row'[cur[t]].broker = IF a.broker # local[t].view.broker THEN a.broker
                                       ELSE row[cur[t]].broker
              /\ row'[cur[t]].bo = IF a.bo # local[t].view.bo THEN a.bo ELSE row[cur[t]].bo
           /\ \A o \in Orders : o # cur[t] => row'[o] = row[o]
           /\ UNCHANGED <<attempts, failovers, events, book>>
<1> DEFINE a == attempts[cur[t]][local[t].att]
           n == [status |-> "SUBMITTED", broker |-> a.broker, bo |-> a.bo]
<1>1. /\ pc[t] = "adopt" /\ CommitRow(t, n) /\ Return(t)
      /\ UNCHANGED <<attempts, failovers, events, book>>
      BY DEF Adopt
<1>2. cur[t] \in Orders /\ local[t].att \in DOMAIN attempts[cur[t]]
      BY <1>1, AtWork DEF TasksOK, FramesOK, FrameOK
<1>3. n.status = "SUBMITTED" /\ n.broker = a.broker /\ n.bo = a.bo
      OBVIOUS
<1> HIDE DEF n
<1>4. /\ row'[cur[t]].status = IF n.status # local[t].view.status THEN n.status
                               ELSE row[cur[t]].status
      /\ row'[cur[t]].broker = IF n.broker # local[t].view.broker THEN n.broker
                               ELSE row[cur[t]].broker
      /\ row'[cur[t]].bo = IF n.bo # local[t].view.bo THEN n.bo ELSE row[cur[t]].bo
      /\ \A o \in Orders : o # cur[t] => row'[o] = row[o]
      BY <1>1, <1>2, CommitEffect
<1> QED
    BY <1>1, <1>2, <1>3, <1>4

\* A request loads its order's row.
LEMMA CancelEffect ==
    ASSUME StoreOK, TasksOK, NEW t \in Tasks, NEW o \in Orders, Cancel(t, o)
    PROVE  /\ cur'[t] = o /\ local'[t].view = row[o] /\ row[o].status \in Cancellable
           /\ pc'[t] = IF row[o].bo = 0 THEN "cancelLocally" ELSE "cancelAtBroker"
           /\ \A u \in Tasks \ {t} : pc'[u] = pc[u] /\ cur'[u] = cur[u] /\ local'[u] = local[u]
           /\ UNCHANGED <<db, book>>
<1> DEFINE f == [local[t] EXCEPT !.view = row[o]]
<1>1. /\ local' = [local EXCEPT ![t] = f] /\ cur' = [cur EXCEPT ![t] = o]
      /\ row[o].status \in Cancellable
      /\ Goto(t, IF row[o].bo = 0 THEN "cancelLocally" ELSE "cancelAtBroker")
      /\ UNCHANGED <<db, book>>
      BY DEF Cancel
<1>2. f.view = row[o]
      BY FrameFields, FrameKept DEF StoreOK
<1> HIDE DEF f
<1>3. /\ local'[t] = f /\ cur'[t] = o
      /\ \A u \in Tasks \ {t} : cur'[u] = cur[u] /\ local'[u] = local[u]
      BY <1>1 DEF TasksOK
<1> QED
    BY <1>1, <1>2, <1>3, GotoEffect

\* The broker cancels the order that the task has loaded.
LEMMA CancelAtBrokerEffect ==
    ASSUME StoreOK, TasksOK, NEW t \in Tasks, CancelAtBroker(t)
    PROVE  /\ pc[t] = "cancelAtBroker" /\ pc'[t] = "recordCancel"
           /\ cur' = cur /\ local' = local
           /\ DOMAIN book' = DOMAIN book
           /\ \A i \in DOMAIN book :
                 /\ book'[i].order = book[i].order /\ book'[i].broker = book[i].broker
                 /\ book'[i].status = IF i = local[t].view.bo THEN "cancelled"
                                      ELSE book[i].status
           /\ \A u \in Tasks \ {t} : pc'[u] = pc[u]
           /\ UNCHANGED db
<1> DEFINE bo == local[t].view.bo
<1>1. /\ pc[t] = "cancelAtBroker" /\ Goto(t, "recordCancel") /\ cur' = cur /\ local' = local
      /\ book' = [book EXCEPT ![bo] = [book[bo] EXCEPT !.status = "cancelled"]]
      /\ UNCHANGED db
      BY DEF CancelAtBroker, BrokerCancel
<1>2. \A i \in DOMAIN book : book[i] \in Listing
      BY DEF StoreOK
<1>3. \A x \in Listing : LET y == [x EXCEPT !.status = "cancelled"] IN
         y.order = x.order /\ y.broker = x.broker /\ y.status = "cancelled"
      BY DEF Listing
<1> HIDE DEF bo
<1>4. /\ DOMAIN book' = DOMAIN book
      /\ \A i \in DOMAIN book :
            /\ book'[i].order = book[i].order /\ book'[i].broker = book[i].broker
            /\ book'[i].status = IF i = bo THEN "cancelled" ELSE book[i].status
      BY <1>1, <1>2, <1>3 DEF StoreOK
<1> QED
    BY <1>1, <1>4, GotoEffect DEF bo

\* A scan goes to an order and loads its row.
LEMMA RecoverEffect ==
    ASSUME StoreOK, TasksOK, NEW t \in Tasks, NEW o \in Orders, Recover(t, o)
    PROVE  /\ o \in local[t].todo /\ local'[t].todo \subseteq local[t].todo
           /\ pc'[t] = "lookup" /\ cur'[t] = o /\ local'[t].view = row[o]
           /\ row[o].status \notin Terminal
           /\ \A u \in Tasks \ {t} : pc'[u] = pc[u] /\ cur'[u] = cur[u] /\ local'[u] = local[u]
           /\ UNCHANGED <<db, book>>
<1> DEFINE g == [local[t] EXCEPT !.todo = local[t].todo \ {o}]
           f == [g EXCEPT !.view = row[o]]
<1>1. g \in Frame /\ f.view = row[o] /\ g.todo = local[t].todo \ {o} /\ f.todo = g.todo
  <2>1. g \in Frame /\ row[o] \in Row
        BY FrameFields, FrameUpdates DEF StoreOK
  <2>2. g.todo = local[t].todo \ {o}
        BY FrameFields DEF Frame
  <2> HIDE DEF g
  <2>3. f.view = row[o] /\ f.todo = g.todo
        BY <2>1, FrameKept DEF Frame
  <2> QED
      BY <2>1, <2>2, <2>3
<1>2. /\ local' = [local EXCEPT ![t] = f] /\ Goto(t, "lookup")
      /\ cur' = [cur EXCEPT ![t] = o] /\ o \in local[t].todo
      /\ row[o].status \notin Terminal /\ UNCHANGED <<db, book>>
      BY DEF Recover
<1> HIDE DEF f
<1>3. /\ local'[t] = f /\ cur'[t] = o
      /\ \A u \in Tasks \ {t} : local'[u] = local[u] /\ cur'[u] = cur[u]
      BY <1>2 DEF TasksOK
<1> HIDE DEF g
<1> QED
    BY <1>1, <1>2, <1>3, GotoEffect

\* A scan skips an order.
LEMMA SkipEffect ==
    ASSUME TasksOK, NEW t \in Tasks, NEW o \in Orders, Skip(t, o)
    PROVE  /\ pc[t] = "next" /\ pc' = pc /\ cur' = cur
           /\ local'[t].todo \subseteq local[t].todo
           /\ \A u \in Tasks \ {t} : local'[u] = local[u]
           /\ UNCHANGED <<db, book>>
<1> DEFINE g == [local[t] EXCEPT !.todo = local[t].todo \ {o}]
<1>1. g.todo = local[t].todo \ {o}
      BY FrameFields DEF Frame
<1>2. local'[t] = g /\ \A u \in Tasks \ {t} : local'[u] = local[u]
      BY DEF Skip, TasksOK
<1> QED
    BY <1>1, <1>2 DEF Skip

\* Recovery looks for a submitted attempt.
LEMMA LookupEffect ==
    ASSUME StoreOK, TasksOK, NEW t \in Tasks, LookupAttempts(t)
    PROVE  /\ pc[t] = "lookup" /\ cur' = cur /\ local'[t].view = local[t].view
           /\ local'[t].todo = local[t].todo
           /\ \/ pc'[t] = "route"
              \/ pc'[t] = "adopt" /\ local'[t].att \in SubmittedAttempts(cur[t])
           /\ \A u \in Tasks \ {t} : pc'[u] = pc[u] /\ local'[u] = local[u]
           /\ UNCHANGED <<db, book>>
<1>1. pc[t] = "lookup" /\ cur' = cur /\ UNCHANGED <<db, book>> /\ cur[t] \in Orders
      BY AtWork DEF LookupAttempts
<1>2. CASE Goto(t, "route") /\ UNCHANGED local
      BY <1>1, <1>2, GotoEffect
<1>3. ASSUME NEW i \in Adoptable(cur[t]), Goto(t, "adopt"),
             local' = [local EXCEPT ![t].att = i]
      PROVE  /\ pc'[t] = "adopt" /\ local'[t].att \in SubmittedAttempts(cur[t])
             /\ local'[t].view = local[t].view /\ local'[t].todo = local[t].todo
             /\ \A u \in Tasks \ {t} : pc'[u] = pc[u] /\ local'[u] = local[u]
  <2> DEFINE f == [local[t] EXCEPT !.att = i]
  <2>1. i \in DOMAIN attempts[cur[t]] /\ i \in Nat /\ i \in SubmittedAttempts(cur[t])
        BY <1>1 DEF Adoptable, SubmittedAttempts, StoreOK
  <2>2. f.att = i /\ f.view = local[t].view /\ f.todo = local[t].todo
        BY <2>1, FrameFields DEF Frame
  <2>3. local'[t] = f /\ \A u \in Tasks \ {t} : local'[u] = local[u]
        BY <1>3 DEF TasksOK
  <2> HIDE DEF f
  <2> QED
      BY <1>3, <2>1, <2>2, <2>3, GotoEffect
<1> QED
    BY <1>1, <1>2, <1>3 DEF LookupAttempts

\* A routing decision starts the walk at the first candidate.
LEMMA RouteEffect ==
    ASSUME TasksOK, NEW t \in Tasks, Route(t)
    PROVE  /\ pc[t] = "route" /\ pc'[t] = "consume" /\ cur' = cur
           /\ local'[t].view = local[t].view /\ local'[t].idx = 1
           /\ local'[t].todo = local[t].todo
           /\ \A u \in Tasks \ {t} : pc'[u] = pc[u] /\ local'[u] = local[u]
           /\ UNCHANGED <<db, book>>
<1>1. PICK c \in Chains : local' = [local EXCEPT ![t].chain = c, ![t].idx = 1]
      BY DEF Route
<1> DEFINE g == [local[t] EXCEPT !.chain = c]
           f == [g EXCEPT !.idx = 1]
<1>2. c \in Seq(Brokers)
      BY DEF Chains
<1>3. g \in Frame /\ g.view = local[t].view /\ g.todo = local[t].todo
      BY <1>2, FrameFields, FrameUpdates, FrameKept DEF Frame
<1>4. local' = [local EXCEPT ![t] = f]
      BY <1>1
<1> HIDE DEF g
<1>5. f.view = local[t].view /\ f.idx = 1 /\ f.todo = local[t].todo
      BY <1>3, FrameKept DEF Frame
<1> HIDE DEF f
<1>6. local'[t] = f /\ \A u \in Tasks \ {t} : local'[u] = local[u]
      BY <1>4 DEF TasksOK
<1>7. pc[t] = "route" /\ Goto(t, "consume") /\ cur' = cur /\ UNCHANGED <<db, book>>
      BY DEF Route
<1> QED
    BY <1>5, <1>6, <1>7, GotoEffect

\* The walk goes to the next candidate, over a recorded failover if there is one.
LEMMA NextEffect ==
    ASSUME StoreOK, TasksOK, NEW t \in Tasks, Reroute(t) \/ Failover(t)
    PROVE  /\ cur[t] \in Orders /\ pc[t] \in {"consume", "failover"} /\ pc'[t] = "consume"
           /\ cur' = cur /\ local[t].idx \in Nat
           /\ local'[t].view = local[t].view /\ local'[t].chain = local[t].chain
           /\ local'[t].idx = local[t].idx + 1 /\ local'[t].todo = local[t].todo
           /\ \A u \in Tasks \ {t} : pc'[u] = pc[u] /\ local'[u] = local[u]
           /\ \A o \in Orders : failovers[o] \subseteq failovers'[o]
           /\ local[t].idx < Len(local[t].chain) =>
                 /\ Candidate(t) \in Brokers
                 /\ <<Candidate(t), local[t].chain[local[t].idx + 1]>> \in failovers'[cur[t]]
           /\ UNCHANGED <<row, attempts, events, book>>
<1> DEFINE f == [local[t] EXCEPT !.idx = local[t].idx + 1]
<1>1. /\ pc[t] \in {"consume", "failover"} /\ pc'[t] = "consume" /\ cur' = cur
      /\ NextCandidate(t) /\ \A u \in Tasks \ {t} : pc'[u] = pc[u]
      /\ UNCHANGED <<row, attempts, events, book>>
      BY GotoEffect DEF Reroute, Failover
<1>2. cur[t] \in Orders /\ InChain(t) /\ local[t].idx >= 1
      BY <1>1, AtWork DEF Reroute, Failover, TasksOK, FramesOK, FrameOK
<1>3. Candidate(t) \in Brokers /\ local[t].idx \in Nat
      BY <1>2, CandidateType, FrameFields
<1>4. /\ f.view = local[t].view /\ f.chain = local[t].chain /\ f.idx = local[t].idx + 1
      /\ f.todo = local[t].todo
      BY <1>3, FrameFields DEF Frame
<1>5. local' = [local EXCEPT ![t] = f]
      BY <1>1, NextCandidateMoves
<1> HIDE DEF f
<1>6. local'[t] = f /\ \A u \in Tasks \ {t} : local'[u] = local[u]
      BY <1>5 DEF TasksOK
<1>7. failovers' = IF local[t].idx < Len(local[t].chain)
                   THEN [failovers EXCEPT ![cur[t]] = failovers[cur[t]] \cup
                           {<<Candidate(t), local[t].chain[local[t].idx + 1]>>}]
                   ELSE failovers
      BY <1>1 DEF NextCandidate, RecordFailover
<1>8. /\ \A o \in Orders : failovers[o] \subseteq failovers'[o]
      /\ local[t].idx < Len(local[t].chain) =>
            <<Candidate(t), local[t].chain[local[t].idx + 1]>> \in failovers'[cur[t]]
      BY <1>2, <1>7 DEF StoreOK
<1> QED
    BY <1>1, <1>2, <1>3, <1>4, <1>6, <1>8

-----------------------------------------------------------------------------
(* What a step can change at all.                                          *)

\* Which actions write which table.
LEMMA TablesStep ==
    ASSUME NEW t \in Tasks, Step(t) \/ Request(t)
    PROVE  /\ \/ row' = row
              \/ Insert(t) \/ GivesUp(t) \/ Cancels(t) \/ StartAttempt(t) \/ RecordSuccess(t)
              \/ Adopt(t)
           /\ attempts' = attempts \/ StartAttempt(t) \/ RecordSuccess(t) \/ AttemptFails(t)
           /\ failovers' = failovers \/ Reroute(t) \/ Failover(t)
           /\ events' = events \/ RecordSuccess(t) \/ Cancels(t)
           /\ book' = book \/ BrokerAccepts(t) \/ CancelAtBroker(t)
<1>1. CASE \/ Admit(t) \/ QueueFull(t) \/ InsertConflict(t) \/ Route(t) \/ NoRoute(t)
           \/ Consume(t) \/ Escape(t) \/ LookupAttempts(t) \/ EndScan(t) \/ Scan(t)
           \/ \E o \in Orders : Place(t, o) \/ Cancel(t, o) \/ Recover(t, o) \/ Skip(t, o)
      BY <1>1 DEF Admit, QueueFull, InsertConflict, Route, NoRoute, Consume, Escape,
         LookupAttempts, EndScan, Scan, Place, Cancel, Recover, Skip, db
<1>2. CASE Insert(t) \/ StartAttempt(t) \/ BrokerAccepts(t) \/ CancelAtBroker(t)
      BY <1>2 DEF Insert, StartAttempt, BrokerAccepts, CancelAtBroker, db
<1>3. CASE GivesUp(t) \/ Cancels(t) \/ RecordSuccess(t) \/ Adopt(t)
      BY <1>3 DEF GivesUp, RejectRateLimited, RejectOrder, Exhaust, Cancels, CancelLocally,
         RecordCancel, CommitCancel, RecordSuccess, Adopt
<1>4. CASE AttemptFails(t) \/ Reroute(t) \/ Failover(t)
      BY <1>4 DEF AttemptFails, Reroute, Failover
<1> QED
    BY <1>1, <1>2, <1>3, <1>4 DEF Step, Proceed, Request, GivesUp, Cancels

\* The other tasks go nowhere, and the other orders' rows stay.
LEMMA OthersKept ==
    ASSUME StoreOK, TasksOK, NEW t \in Tasks, Step(t) \/ Request(t)
    PROVE  /\ \A u \in Tasks \ {t} : pc'[u] = pc[u] /\ cur'[u] = cur[u] /\ local'[u] = local[u]
           /\ \A o \in Orders : o # cur[t] => row'[o] = row[o]
<1>1. \A o \in Orders : o # cur[t] => row'[o] = row[o]
  <2>1. CASE Insert(t)
        BY <2>1, InsertEffect
  <2>2. CASE GivesUp(t)
        BY <2>2, GiveUpEffect
  <2>3. CASE Cancels(t)
        BY <2>3, CancelsEffect
  <2>4. CASE StartAttempt(t)
        BY <2>4, StartAttemptEffect
  <2>5. CASE RecordSuccess(t)
        BY <2>5, RecordEffect
  <2>6. CASE Adopt(t)
        BY <2>6, AdoptEffect
  <2> QED
      BY <2>1, <2>2, <2>3, <2>4, <2>5, <2>6, TablesStep
<1>2. CASE \/ Admit(t) \/ QueueFull(t) \/ Consume(t) \/ EndScan(t) \/ Scan(t)
           \/ \E o \in Orders : Place(t, o)
      BY <1>1, <1>2 DEF Admit, QueueFull, Consume, EndScan, Scan, Place, Goto, TasksOK
<1>3. CASE \/ InsertConflict(t) \/ NoRoute(t) \/ Escape(t) \/ GivesUp(t) \/ Cancels(t)
           \/ RecordSuccess(t) \/ Adopt(t)
  <2>1. Return(t)
        BY <1>3, GiveUpEffect, CancelsEffect, RecordEffect, AdoptEffect
        DEF InsertConflict, NoRoute, Escape
  <2> QED
      BY <1>1, <2>1, ReturnEffect
<1>4. CASE \/ Insert(t) \/ StartAttempt(t) \/ BrokerAccepts(t) \/ AttemptFails(t)
           \/ CancelAtBroker(t)
  <2>1. CASE Insert(t) \/ BrokerAccepts(t)
        BY <1>1, <2>1, InsertEffect, AcceptEffect
  <2>2. CASE StartAttempt(t)
        BY <1>1, <2>2, StartAttemptEffect
  <2>3. CASE AttemptFails(t)
        BY <1>1, <2>3, AttemptFailsEffect
  <2>4. CASE CancelAtBroker(t)
        BY <1>1, <2>4, CancelAtBrokerEffect
  <2> QED
      BY <1>4, <2>1, <2>2, <2>3, <2>4
<1>5. CASE \/ Route(t) \/ Reroute(t) \/ Failover(t) \/ LookupAttempts(t)
           \/ \E o \in Orders : Cancel(t, o) \/ Recover(t, o) \/ Skip(t, o)
      BY <1>1, <1>5, RouteEffect, NextEffect, LookupEffect, CancelEffect, RecoverEffect,
         SkipEffect
<1> QED
    BY <1>1, <1>2, <1>3, <1>4, <1>5 DEF Step, Proceed, Request, GivesUp, Cancels

\* A step on the walk that touches no table but failover_events.
Walks(t) ==
    /\ Route(t) \/ Consume(t) \/ Reroute(t) \/ Failover(t)
    /\ pc[t] \in {"route", "consume", "failover"} /\ pc'[t] \in {"consume", "attempt"}
    /\ cur' = cur /\ local'[t].view = local[t].view

\* How a task gets to where it works on an order, or goes on there.
LEMMA OwnStep ==
    ASSUME StoreOK, TasksOK, NEW t \in Tasks, Step(t) \/ Request(t), pc'[t] \in Busy
    PROVE  \/ Insert(t) \/ StartAttempt(t) \/ BrokerAccepts(t) \/ AttemptFails(t)
           \/ CancelAtBroker(t) \/ LookupAttempts(t) \/ Walks(t)
           \/ \E o \in Orders : Cancel(t, o)
           \/ \E o \in Orders : Recover(t, o)
<1>1. CASE \/ Admit(t) \/ QueueFull(t) \/ EndScan(t) \/ Scan(t)
           \/ \E o \in Orders : Place(t, o) \/ Skip(t, o)
  <2>1. pc'[t] \in {"insert", "idle", "next", "admit"}
        BY <1>1, GotoEffect, SkipEffect DEF Admit, QueueFull, EndScan, Scan, Place
  <2> QED
      BY <2>1 DEF Busy, Submitting, Cancelling, Recovering
<1>2. CASE \/ InsertConflict(t) \/ NoRoute(t) \/ Escape(t) \/ GivesUp(t) \/ Cancels(t)
           \/ RecordSuccess(t) \/ Adopt(t)
  <2>1. Return(t)
        BY <1>2, GiveUpEffect, CancelsEffect, RecordEffect, AdoptEffect
        DEF InsertConflict, NoRoute, Escape
  <2> QED
      BY <2>1, ReturnEffect DEF Busy, Submitting, Cancelling, Recovering
<1>3. CASE Route(t) \/ Reroute(t) \/ Failover(t)
      BY <1>3, RouteEffect, NextEffect DEF Walks
<1>4. CASE Consume(t)
      BY <1>4, GotoEffect DEF Consume, Walks
<1> QED
    BY <1>1, <1>2, <1>3, <1>4 DEF Step, Proceed, Request, GivesUp, Cancels

\* The brokers' books only grow: a broker order keeps its order and its broker.
LEMMA BookGrows ==
    ASSUME StoreOK, TasksOK, NEW t \in Tasks, Step(t) \/ Request(t)
    PROVE  /\ DOMAIN book \subseteq DOMAIN book'
           /\ \A i \in DOMAIN book : /\ book'[i].order = book[i].order
                                     /\ book'[i].broker = book[i].broker
BY TablesStep, AcceptEffect, CancelAtBrokerEffect

\* A scan remembers orders that exist: those it found, or had found before.
LEMMA TodoStep ==
    ASSUME StoreOK, TasksOK, NEW t \in Tasks, Step(t) \/ Request(t)
    PROVE  local'[t].todo \subseteq local[t].todo \cup {o \in Orders : ~IsNew(o)}
<1> DEFINE Keeps == local'[t].todo = local[t].todo
<1>1. CASE Scan(t)
  <2> DEFINE S == {o \in Orders : row[o].status \in Stuck}
             f == [local[t] EXCEPT !.todo = S]
  <2>1. f.todo = S /\ local'[t] = f
        BY <1>1, FrameFields DEF Scan, Frame, TasksOK
  <2> QED
      BY <2>1 DEF Stuck, IsNew
<1>2. CASE \/ InsertConflict(t) \/ NoRoute(t) \/ Escape(t) \/ GivesUp(t) \/ Cancels(t)
           \/ RecordSuccess(t) \/ Adopt(t)
  <2>1. Return(t)
        BY <1>2, GiveUpEffect, CancelsEffect, RecordEffect, AdoptEffect
        DEF InsertConflict, NoRoute, Escape
  <2>2. local'[t] = [IdleFrame EXCEPT !.todo = local[t].todo]
        BY <2>1 DEF Return, TasksOK
  <2>3. Keeps
        BY <2>2 DEF IdleFrame
  <2> QED
      BY <2>3
<1>3. CASE UNCHANGED local
      BY <1>3
<1>4. CASE \/ Route(t) \/ Reroute(t) \/ Failover(t) \/ LookupAttempts(t)
           \/ \E o \in Orders : Recover(t, o) \/ Skip(t, o)
      BY <1>4, RouteEffect, NextEffect, LookupEffect, RecoverEffect, SkipEffect
<1>5. ASSUME NEW v \in Row, local' = [local EXCEPT ![t] = [local[t] EXCEPT !.view = v]]
      PROVE  Keeps
  <2>1. [local[t] EXCEPT !.view = v].todo = local[t].todo
        BY FrameFields DEF Frame
  <2> QED
      BY <1>5, <2>1 DEF TasksOK
<1>6. CASE Insert(t)
  <2> DEFINE v == [AbsentRow EXCEPT !.status = "CREATED"]
  <2>1. v \in Row
        BY IdleFrameType, RowUpdates DEF Statuses
  <2>2. local' = [local EXCEPT ![t] = [local[t] EXCEPT !.view = v]]
        BY <1>6 DEF Insert
  <2> HIDE DEF v
  <2>3. Keeps
        BY <1>5, <2>1, <2>2
  <2> QED
      BY <2>3
<1>7. CASE BrokerAccepts(t)
  <2> DEFINE v == [local[t].view EXCEPT !.bo = Len(book) + 1]
  <2>1. v \in Row
    <3>1. Len(book) + 1 \in Nat
          BY DEF StoreOK
    <3> QED
        BY <3>1, FrameFields, RowUpdates
  <2>2. local' = [local EXCEPT ![t] = [local[t] EXCEPT !.view = v]]
        BY <1>7 DEF BrokerAccepts
  <2> HIDE DEF v
  <2>3. Keeps
        BY <1>5, <2>1, <2>2
  <2> QED
      BY <2>3
<1>8. CASE \E o \in Orders : Cancel(t, o)
  <2>1. PICK o \in Orders : Cancel(t, o)
        BY <1>8
  <2>2. /\ row[o] \in Row
        /\ local' = [local EXCEPT ![t] = [local[t] EXCEPT !.view = row[o]]]
        BY <2>1 DEF Cancel, StoreOK
  <2>3. Keeps
        BY <1>5, <2>2
  <2> QED
      BY <2>3
<1>9. CASE StartAttempt(t)
  <2> DEFINE v == Attempted(t)
             n == Len(attempts[cur[t]]) + 1
             g == [local[t] EXCEPT !.view = v]
             f == [g EXCEPT !.att = n]
  <2>1. local' = [local EXCEPT ![t] = f]
        BY <1>9 DEF StartAttempt
  <2>2. g.todo = local[t].todo /\ f.todo = g.todo
    <3>1. v \in Row /\ n \in Nat
      <4>1. Candidate(t) \in Brokers /\ cur[t] \in Orders
            BY <1>9, StartAttemptEffect
      <4>2. n \in Nat
            BY <4>1 DEF StoreOK
      <4>3. v \in Row
            BY <4>1, FrameFields DEF Attempted, Row, Statuses
      <4> QED
          BY <4>2, <4>3
    <3> HIDE DEF v, n
    <3>2. g \in Frame /\ g.todo = local[t].todo
          BY <3>1, FrameFields, FrameUpdates DEF Frame
    <3> HIDE DEF g
    <3>3. f.todo = g.todo
          BY <3>1, <3>2 DEF Frame
    <3> QED
        BY <3>2, <3>3
  <2> HIDE DEF f, g
  <2>3. Keeps
        BY <2>1, <2>2 DEF TasksOK
  <2> QED
      BY <2>3
<1>10. CASE \/ Admit(t) \/ QueueFull(t) \/ Consume(t) \/ AttemptFails(t) \/ CancelAtBroker(t)
            \/ EndScan(t) \/ \E o \in Orders : Place(t, o)
       BY <1>3, <1>10 DEF Admit, QueueFull, Consume, AttemptFails, CancelAtBroker, EndScan,
          Place
<1> QED
    BY <1>1, <1>2, <1>4, <1>6, <1>7, <1>8, <1>9, <1>10 DEF Step, Proceed, Request, GivesUp, Cancels

-----------------------------------------------------------------------------
(* An order row is backed by an attempt and by the broker's book.          *)

\* A new attempt comes last; the others stay as they are.
LEMMA AttemptAdded ==
    ASSUME StoreOK, TasksOK, NEW t \in Tasks, StartAttempt(t)
    PROVE  LET n == Len(attempts[cur[t]]) + 1 IN
           /\ n \notin DOMAIN attempts[cur[t]]
           /\ \A o \in Orders : DOMAIN attempts'[o] =
                 IF o = cur[t] THEN DOMAIN attempts[o] \cup {n} ELSE DOMAIN attempts[o]
           /\ \A o \in Orders : \A i \in DOMAIN attempts[o] : attempts'[o][i] = attempts[o][i]
           /\ attempts'[cur[t]][n].status = "submitting"
           /\ attempts'[cur[t]][n].no = local[t].idx
           /\ attempts'[cur[t]][n].broker = Candidate(t)
<1> DEFINE n == Len(attempts[cur[t]]) + 1
           a == [no |-> local[t].idx, broker |-> Candidate(t),
                 status |-> "submitting", bo |-> 0]
<1>1. cur[t] \in Orders /\ attempts' = [attempts EXCEPT ![cur[t]] = Append(@, a)]
      BY StartAttemptEffect
<1>2. a.status = "submitting" /\ a.no = local[t].idx /\ a.broker = Candidate(t)
      OBVIOUS
<1> HIDE DEF a
<1>3. attempts[cur[t]] \in Seq(Attempt)
      BY <1>1 DEF StoreOK
<1>4. /\ attempts'[cur[t]] = Append(attempts[cur[t]], a)
      /\ \A o \in Orders : o # cur[t] => attempts'[o] = attempts[o]
      BY <1>1 DEF StoreOK
<1>5. /\ DOMAIN attempts'[cur[t]] = DOMAIN attempts[cur[t]] \cup {n}
      /\ n \notin DOMAIN attempts[cur[t]]
      /\ \A i \in DOMAIN attempts[cur[t]] : attempts'[cur[t]][i] = attempts[cur[t]][i]
      /\ attempts'[cur[t]][n] = a
      BY <1>3, <1>4
<1> HIDE DEF n
<1> QED
    BY <1>2, <1>4, <1>5 DEF n

\* A submitted attempt stays one.
LEMMA SubmittedKept ==
    ASSUME StoreOK, TasksOK, AttemptsOwned, NEW t \in Tasks, Step(t) \/ Request(t),
           NEW o \in Orders, NEW i \in SubmittedAttempts(o)
    PROVE  i \in SubmittedAttempts(o)' /\ attempts'[o][i].bo = attempts[o][i].bo
<1>1. i \in DOMAIN attempts[o] /\ attempts[o][i].status = "submitted"
      BY DEF SubmittedAttempts
<1>2. CASE attempts' = attempts
      BY <1>2 DEF SubmittedAttempts
<1>3. CASE StartAttempt(t)
  <2>1. attempts'[o][i] = attempts[o][i] /\ i \in DOMAIN attempts'[o]
        BY <1>1, <1>3, AttemptAdded
  <2> QED
      BY <1>1, <2>1 DEF SubmittedAttempts
<1>4. CASE RecordSuccess(t) \/ AttemptFails(t)
  <2>1. /\ pc[t] \in Attempting
        /\ DOMAIN attempts'[o] = DOMAIN attempts[o]
        /\ o # cur[t] \/ i # local[t].att => attempts'[o][i] = attempts[o][i]
        BY <1>1, <1>4, RecordEffect, AttemptFailsEffect DEF Attempting
  <2>2. o # cur[t] \/ i # local[t].att
        BY <1>1, <2>1 DEF AttemptsOwned
  <2> QED
      BY <1>1, <2>1, <2>2 DEF SubmittedAttempts
<1> QED
    BY <1>2, <1>3, <1>4, TablesStep

\* Only an acceptance makes an attempt submitted.
LEMMA SubmittedNew ==
    ASSUME StoreOK, TasksOK, NEW t \in Tasks, Step(t) \/ Request(t),
           NEW o \in Orders, NEW i \in SubmittedAttempts(o)'
    PROVE  \/ i \in SubmittedAttempts(o)
           \/ RecordSuccess(t) /\ o = cur[t] /\ i = local[t].att
<1>1. i \in DOMAIN attempts'[o] /\ attempts'[o][i].status = "submitted"
      BY DEF SubmittedAttempts
<1>2. CASE attempts' = attempts
      BY <1>2 DEF SubmittedAttempts
<1>3. CASE StartAttempt(t)
  <2> DEFINE n == Len(attempts[cur[t]]) + 1
  <2>1. /\ DOMAIN attempts'[o] =
              IF o = cur[t] THEN DOMAIN attempts[o] \cup {n} ELSE DOMAIN attempts[o]
        /\ \A j \in DOMAIN attempts[o] : attempts'[o][j] = attempts[o][j]
        /\ attempts'[cur[t]][n].status = "submitting"
        BY <1>3, AttemptAdded
  <2> HIDE DEF n
  <2>2. i \in DOMAIN attempts[o] /\ attempts'[o][i] = attempts[o][i]
        BY <1>1, <2>1
  <2> QED
      BY <1>1, <2>2 DEF SubmittedAttempts
<1>4. CASE RecordSuccess(t)
  <2>1. /\ DOMAIN attempts'[o] = DOMAIN attempts[o]
        /\ o # cur[t] \/ i # local[t].att => attempts'[o][i] = attempts[o][i]
        BY <1>1, <1>4, RecordEffect
  <2> QED
      BY <1>1, <1>4, <2>1 DEF SubmittedAttempts
<1>5. CASE AttemptFails(t)
  <2>1. /\ DOMAIN attempts'[o] = DOMAIN attempts[o]
        /\ o # cur[t] \/ i # local[t].att => attempts'[o][i] = attempts[o][i]
        /\ attempts'[cur[t]][local[t].att].status = "failed"
        BY <1>1, <1>5, AttemptFailsEffect
  <2> QED
      BY <1>1, <2>1 DEF SubmittedAttempts
<1> QED
    BY <1>2, <1>3, <1>4, <1>5, TablesStep

\* The broker order of an order row stays, or comes with an attempt of it.
LEMMA RowBacked ==
    ASSUME StoreOK, TasksOK, BackInv, NEW t \in Tasks, Step(t) \/ Request(t),
           NEW o \in Orders
    PROVE  \/ /\ row'[o].bo = row[o].bo
              /\ row'[o].status = "SUBMITTED" => row[o].status = "SUBMITTED"
           \/ IsNew(o) /\ row'[o].bo = 0 /\ row'[o].status = "CREATED"
           \/ \E i \in SubmittedAttempts(o)' :
                 /\ attempts'[o][i].bo = row'[o].bo
                 /\ row'[o].bo \in DOMAIN book' /\ book'[row'[o].bo].order = o
<1>1. CASE o # cur[t] \/ row' = row
      BY <1>1, OthersKept
<1>2. CASE o = cur[t] /\ Insert(t)
      BY <1>2, InsertEffect
<1>3. CASE o = cur[t] /\ (GivesUp(t) \/ Cancels(t) \/ StartAttempt(t))
  <2>1. CASE GivesUp(t)
        BY <1>3, <2>1, GiveUpEffect
  <2>2. CASE Cancels(t)
        BY <1>3, <2>2, CancelsEffect
  <2>3. CASE StartAttempt(t)
        BY <1>3, <2>3, StartAttemptEffect
  <2> QED
      BY <1>3, <2>1, <2>2, <2>3
<1>4. CASE o = cur[t] /\ RecordSuccess(t)
  <2> DEFINE i == local[t].att
  <2>1. /\ pc[t] = "record" /\ i \in DOMAIN attempts'[o] /\ attempts'[o][i].status = "submitted"
        /\ attempts'[o][i].bo = local[t].view.bo /\ row'[o].bo = local[t].view.bo
        /\ book' = book
        BY <1>4, RecordEffect
  <2>2. local[t].view.bo \in DOMAIN book /\ book[local[t].view.bo].order = o
        BY <1>4, <2>1 DEF BackInv, KnowledgeOK, KnowsOK
  <2>3. i \in SubmittedAttempts(o)'
        BY <2>1 DEF SubmittedAttempts
  <2> HIDE DEF i
  <2> QED
      BY <2>1, <2>2, <2>3
<1>5. CASE o = cur[t] /\ Adopt(t)
  <2> DEFINE i == local[t].att
  <2>1. /\ pc[t] = "adopt" /\ attempts' = attempts /\ book' = book
        /\ row'[o].bo = IF attempts[o][i].bo # local[t].view.bo THEN attempts[o][i].bo
                        ELSE row[o].bo
        BY <1>5, AdoptEffect
  <2>2. i \in SubmittedAttempts(o) /\ (local[t].view.bo # 0 => row[o].bo # 0)
        BY <1>5, <2>1 DEF BackInv, KnowledgeOK, KnowsOK, Busy, Recovering
  <2>3. attempts[o][i].bo \in DOMAIN book /\ book[attempts[o][i].bo].order = o
        BY <2>2 DEF BackInv, AttemptsBacked
  <2>4. CASE row'[o].bo = attempts[o][i].bo
    <3>1. i \in SubmittedAttempts(o)' /\ attempts'[o][i].bo = row'[o].bo
          BY <2>1, <2>2, <2>4 DEF SubmittedAttempts
    <3> QED
        BY <2>1, <2>3, <2>4, <3>1
  <2>5. CASE row'[o].bo # attempts[o][i].bo
    <3>1. local[t].view.bo # 0 /\ row'[o].bo = row[o].bo
          BY <2>1, <2>3, <2>5 DEF StoreOK
    <3>2. PICK j \in SubmittedAttempts(o) : attempts[o][j].bo = row[o].bo
          BY <2>2, <3>1 DEF BackInv, RowBackedByAttempt
    <3>3. attempts[o][j].bo \in DOMAIN book /\ book[attempts[o][j].bo].order = o
          BY <3>2 DEF BackInv, AttemptsBacked
    <3>4. j \in SubmittedAttempts(o)'
          BY <2>1, <3>2 DEF SubmittedAttempts
    <3> QED
        BY <2>1, <3>1, <3>2, <3>3, <3>4
  <2> QED
      BY <2>4, <2>5
<1> QED
    BY <1>1, <1>2, <1>3, <1>4, <1>5, TablesStep

\* Every submitted attempt stays backed by the book.
LEMMA BackedStep ==
    ASSUME StoreOK, TasksOK, BackInv, NEW t \in Tasks, Step(t) \/ Request(t)
    PROVE  AttemptsBacked'
<1> SUFFICES ASSUME NEW o \in Orders, NEW i \in SubmittedAttempts(o)'
             PROVE  attempts'[o][i].bo \in DOMAIN book' /\ book'[attempts'[o][i].bo].order = o
    BY DEF AttemptsBacked
<1>1. CASE i \in SubmittedAttempts(o)
  <2>1. attempts'[o][i].bo = attempts[o][i].bo
        BY <1>1, SubmittedKept DEF BackInv
  <2>2. attempts[o][i].bo \in DOMAIN book /\ book[attempts[o][i].bo].order = o
        BY <1>1 DEF BackInv, AttemptsBacked
  <2> QED
      BY <2>1, <2>2, BookGrows
<1>2. CASE RecordSuccess(t) /\ o = cur[t] /\ i = local[t].att
  <2>1. pc[t] = "record" /\ attempts'[o][i].bo = local[t].view.bo /\ book' = book
        BY <1>2, RecordEffect
  <2> QED
      BY <1>2, <2>1 DEF BackInv, KnowledgeOK, KnowsOK
<1> QED
    BY <1>1, <1>2, SubmittedNew

\* The attempt a task waits on stays its own.
LEMMA OwnedStep ==
    ASSUME StoreOK, TasksOK, BackInv, NEW t \in Tasks, Step(t) \/ Request(t)
    PROVE  AttemptsOwned'
<1>1. \A u \in Tasks : pc[u] \in Attempting =>
         /\ cur[u] \in Orders /\ local[u].att \in DOMAIN attempts[cur[u]]
         /\ attempts[cur[u]][local[u].att].status = "submitting"
      BY AtWork DEF BackInv, AttemptsOwned, Attempting, TasksOK, FramesOK, FrameOK
<1>2. \A u \in Tasks \ {t} : pc'[u] = pc[u] /\ cur'[u] = cur[u] /\ local'[u] = local[u]
      BY OthersKept
<1>3. ASSUME NEW u \in Tasks \ {t}, pc[u] \in Attempting
      PROVE  attempts'[cur[u]][local[u].att].status = "submitting"
  <2>1. CASE attempts' = attempts
        BY <1>1, <1>3, <2>1
  <2>2. CASE StartAttempt(t)
        BY <1>1, <1>3, <2>2, AttemptAdded
  <2>3. CASE RecordSuccess(t) \/ AttemptFails(t)
    <3>1. /\ pc[t] \in Attempting
          /\ cur[u] # cur[t] \/ local[u].att # local[t].att =>
                attempts'[cur[u]][local[u].att] = attempts[cur[u]][local[u].att]
          BY <1>1, <1>3, <2>3, RecordEffect, AttemptFailsEffect DEF Attempting
    <3>2. cur[u] # cur[t] \/ local[u].att # local[t].att
          BY <1>3, <3>1 DEF BackInv, AttemptsOwned
    <3> QED
        BY <1>1, <1>3, <3>1, <3>2
  <2> QED
      BY <2>1, <2>2, <2>3, TablesStep
<1>4. CASE pc'[t] \notin Attempting
      BY <1>2, <1>3, <1>4 DEF BackInv, AttemptsOwned
<1>5. CASE StartAttempt(t)
  <2> DEFINE n == Len(attempts[cur[t]]) + 1
  <2>1. /\ n \notin DOMAIN attempts[cur[t]] /\ attempts'[cur[t]][n].status = "submitting"
        /\ cur'[t] = cur[t] /\ local'[t].att = n
        BY <1>5, AttemptAdded, StartAttemptEffect
  <2> HIDE DEF n
  <2>2. ASSUME NEW u \in Tasks \ {t}, pc[u] \in Attempting, cur[u] = cur[t]
        PROVE  local[u].att # n
        BY <1>1, <2>1, <2>2
  <2> QED
      BY <1>2, <1>3, <2>1, <2>2 DEF BackInv, AttemptsOwned
<1>6. CASE BrokerAccepts(t)
  <2>1. /\ pc[t] \in Attempting /\ cur'[t] = cur[t] /\ local'[t].att = local[t].att
        /\ attempts' = attempts
        BY <1>6, AcceptEffect DEF Attempting
  <2> QED
      BY <1>1, <1>2, <1>3, <2>1 DEF BackInv, AttemptsOwned
<1>7. CASE pc'[t] \in Attempting
  <2>1. pc'[t] \in Busy
        BY <1>7 DEF Attempting, Busy, Submitting
  <2>2. ~Insert(t) /\ ~AttemptFails(t) /\ ~CancelAtBroker(t) /\ ~LookupAttempts(t)
        BY <1>7, InsertEffect, AttemptFailsEffect, CancelAtBrokerEffect, LookupEffect
        DEF Attempting
  <2>3. ~Walks(t) /\ ~\E o \in Orders : Cancel(t, o) \/ Recover(t, o)
        BY <1>7, CancelEffect, RecoverEffect DEF Attempting, Walks
  <2> QED
      BY <1>5, <1>6, <2>1, <2>2, <2>3, OwnStep
<1> QED
    BY <1>4, <1>7

\* What the tasks know stays true.
LEMMA KnowledgeStep ==
    ASSUME StoreOK, TasksOK, BackInv, NEW t \in Tasks, Step(t) \/ Request(t)
    PROVE  KnowledgeOK'
<1>1. \A o \in Orders : ~IsNew(o) => ~IsNew(o)'
      BY StepStays DEF RowsStay
<1>2. \A o \in Orders : ~IsNew(o) /\ row[o].bo # 0 => row'[o].bo # 0
  <2>1. \A i \in DOMAIN book' : i # 0
    <3>1. book' \in Seq(Listing)
          BY TaskStep DEF StoreOK
    <3> QED
        BY <3>1
  <2> QED
      BY <2>1, RowBacked
<1>3. ASSUME NEW u \in Tasks, pc'[u] = pc[u], cur'[u] = cur[u], local'[u] = local[u]
      PROVE  KnowsOK(u)'
  <2>1. KnowsOK(u)
        BY DEF BackInv, KnowledgeOK
  <2>2. pc[u] \in Busy => cur[u] \in Orders
        BY AtWork DEF Busy, Submitting, Cancelling, Recovering
  <2>3. (\A o \in local[u].todo : ~IsNew(o))'
    <3>1. local[u].todo \subseteq Orders
          BY FrameFields
    <3> QED
        BY <1>1, <1>3, <2>1, <3>1 DEF KnowsOK
  <2>4. (pc[u] \in Busy => ~IsNew(cur[u]))'
        BY <1>1, <1>3, <2>1, <2>2 DEF KnowsOK, IsNew
  <2>5. (pc[u] \in Busy \ {"record"} /\ local[u].view.bo # 0 => row[cur[u]].bo # 0)'
        BY <1>2, <1>3, <2>1, <2>2 DEF KnowsOK
  <2>6. (pc[u] = "record" => /\ local[u].view.bo \in DOMAIN book
                             /\ book[local[u].view.bo].order = cur[u])'
        BY <1>3, <2>1, BookGrows DEF KnowsOK
  <2>7. (pc[u] = "adopt" => local[u].att \in SubmittedAttempts(cur[u]))'
    <3> SUFFICES ASSUME pc'[u] = "adopt"
                 PROVE  (local[u].att \in SubmittedAttempts(cur[u]))'
        OBVIOUS
    <3>1. local[u].att \in SubmittedAttempts(cur[u]) /\ cur[u] \in Orders
          BY <1>3, <2>1, <2>2 DEF KnowsOK, Busy, Recovering
    <3>2. AttemptsOwned
          BY DEF BackInv
    <3>3. \A o \in Orders : \A i \in SubmittedAttempts(o) : i \in SubmittedAttempts(o)'
          BY <3>2, SubmittedKept
    <3> QED
        BY <1>3, <3>1, <3>3 DEF SubmittedAttempts
  <2> QED
      BY <1>3, <2>1, <2>3, <2>4, <2>5, <2>6, <2>7 DEF KnowsOK
<1>4. KnowsOK(t)'
  <2>1. (\A o \in local[t].todo : ~IsNew(o))'
    <3>1. KnowsOK(t) /\ local[t].todo \subseteq Orders
          BY FrameFields DEF BackInv, KnowledgeOK
    <3>2. local'[t].todo \subseteq local[t].todo \cup {o \in Orders : ~IsNew(o)}
          BY TodoStep
    <3> QED
        BY <1>1, <3>1, <3>2 DEF KnowsOK
  <2>2. CASE pc'[t] \notin Busy
        BY <2>1, <2>2 DEF KnowsOK, Busy, Submitting, Recovering, Cancelling
  <2>3. KnowsOK(t) /\ (pc[t] \in Busy => cur[t] \in Orders)
        BY AtWork DEF BackInv, KnowledgeOK, Busy, Submitting, Cancelling, Recovering
  <2>4. CASE Insert(t)
    <3>1. /\ pc'[t] = "route" /\ row'[cur'[t]].status = "CREATED"
          /\ local'[t].view.bo = 0
          BY <2>4, InsertEffect
    <3> QED
        BY <2>1, <3>1 DEF KnowsOK, IsNew, Recovering, Cancelling
  <2>5. CASE StartAttempt(t) \/ AttemptFails(t) \/ Walks(t)
    <3>1. /\ pc[t] \in Busy \ {"record"} /\ cur'[t] = cur[t]
          /\ local'[t].view.bo = local[t].view.bo
          /\ pc'[t] \in Submitting \ {"record"}
          BY <2>5, StartAttemptEffect, AttemptFailsEffect DEF Walks, Busy, Submitting
    <3>2. pc'[t] \notin Recovering \cup Cancelling \cup {"record"}
          BY <3>1 DEF Submitting, Recovering, Cancelling
    <3>3. (~IsNew(cur[t]) /\ (local[t].view.bo # 0 => row[cur[t]].bo # 0))'
          BY <1>1, <1>2, <2>3, <3>1 DEF KnowsOK, IsNew
    <3> QED
        BY <2>1, <3>2, <3>3 DEF KnowsOK, Recovering
  <2>6. CASE BrokerAccepts(t)
    <3>1. /\ pc[t] = "send" /\ pc'[t] = "record" /\ cur'[t] = cur[t]
          /\ local'[t].view.bo \in DOMAIN book' /\ book'[local'[t].view.bo].order = cur'[t]
          BY <2>6, AcceptEffect
    <3>2. ~IsNew(cur[t])'
          BY <1>1, <2>3, <3>1 DEF KnowsOK, Busy, Submitting, IsNew
    <3> QED
        BY <2>1, <3>1, <3>2 DEF KnowsOK, Recovering, Cancelling
  <2>7. CASE CancelAtBroker(t)
    <3>1. /\ pc[t] = "cancelAtBroker" /\ pc'[t] = "recordCancel" /\ cur' = cur
          /\ local' = local /\ row' = row
          BY <2>7, CancelAtBrokerEffect DEF db
    <3>2. /\ ~IsNew(cur[t]) /\ (local[t].view.bo # 0 => row[cur[t]].bo # 0)
          /\ local[t].view.status # "CANCELLED"
          BY <2>3, <3>1 DEF KnowsOK, Busy, Cancelling
    <3> QED
        BY <2>1, <3>1, <3>2 DEF KnowsOK, Recovering, Cancelling, IsNew
  <2>8. CASE LookupAttempts(t)
    <3>1. /\ pc[t] = "lookup" /\ cur' = cur /\ local'[t].view = local[t].view
          /\ \/ pc'[t] = "route"
             \/ pc'[t] = "adopt" /\ local'[t].att \in SubmittedAttempts(cur[t])
          /\ row' = row /\ attempts' = attempts
          BY <2>8, LookupEffect DEF db
    <3>2. /\ ~IsNew(cur[t]) /\ (local[t].view.bo # 0 => row[cur[t]].bo # 0)
          /\ local[t].view.status \notin Terminal
          BY <2>3, <3>1 DEF KnowsOK, Busy, Recovering
    <3> QED
        BY <2>1, <3>1, <3>2 DEF KnowsOK, Recovering, Cancelling, IsNew, SubmittedAttempts
  <2>9. ASSUME NEW o \in Orders, Cancel(t, o)
        PROVE  KnowsOK(t)'
    <3>1. /\ pc'[t] \in {"cancelLocally", "cancelAtBroker"} /\ cur'[t] = o
          /\ local'[t].view = row[o] /\ row[o].status \in Cancellable /\ row' = row
          BY <2>9, CancelEffect DEF db
    <3>2. row[o].status # "CANCELLED" /\ ~IsNew(o)
          BY <3>1 DEF Cancellable, IsNew
    <3> QED
        BY <2>1, <3>1, <3>2 DEF KnowsOK, Recovering, IsNew
  <2>10. ASSUME NEW o \in Orders, Recover(t, o)
         PROVE  KnowsOK(t)'
    <3>1. /\ o \in local[t].todo /\ row' = row
          /\ pc'[t] = "lookup" /\ cur'[t] = o /\ local'[t].view = row[o]
          /\ row[o].status \notin Terminal
          BY <2>10, RecoverEffect DEF db
    <3>2. ~IsNew(o)
          BY <2>3, <3>1 DEF KnowsOK
    <3> QED
        BY <2>1, <3>1, <3>2 DEF KnowsOK, IsNew, Cancelling
  <2> QED
      BY <2>2, <2>4, <2>5, <2>6, <2>7, <2>8, <2>9, <2>10, OwnStep
<1> QED
    BY <1>3, <1>4, OthersKept DEF KnowledgeOK

\* Every step keeps the order rows backed.
LEMMA NextBackInv ==
    ASSUME IInv, BackInv, [Next]_vars
    PROVE  BackInv'
<1> USE DEF IInv
<1>1. ASSUME NEW t \in Tasks, Step(t) \/ Request(t)
      PROVE  BackInv'
  <2>1. AttemptsBacked' /\ AttemptsOwned' /\ KnowledgeOK'
        BY <1>1, BackedStep, OwnedStep, KnowledgeStep
  <2>2. RowBackedByAttempt'
    <3> SUFFICES ASSUME NEW o \in Orders
                 PROVE  /\ row'[o].status = "SUBMITTED" => row'[o].bo # 0
                        /\ row'[o].bo # 0 =>
                              /\ book'[row'[o].bo].order = o
                              /\ \E i \in SubmittedAttempts(o)' : attempts'[o][i].bo = row'[o].bo
        BY DEF RowBackedByAttempt, SubmittedAttempts
    <3>1. CASE /\ row'[o].bo = row[o].bo
               /\ row'[o].status = "SUBMITTED" => row[o].status = "SUBMITTED"
      <4>1. row'[o].status = "SUBMITTED" => row'[o].bo # 0
            BY <3>1 DEF BackInv, RowBackedByAttempt
      <4>2. ASSUME row[o].bo # 0
            PROVE  /\ book'[row[o].bo].order = o
                   /\ \E i \in SubmittedAttempts(o)' : attempts'[o][i].bo = row[o].bo
        <5>1. PICK i \in SubmittedAttempts(o) : attempts[o][i].bo = row[o].bo
              BY <4>2 DEF BackInv, RowBackedByAttempt
        <5>2. row[o].bo \in DOMAIN book /\ book[row[o].bo].order = o
              BY <5>1 DEF BackInv, AttemptsBacked
        <5>3. i \in SubmittedAttempts(o)' /\ attempts'[o][i].bo = row[o].bo
              BY <1>1, <5>1, SubmittedKept DEF BackInv
        <5>4. book'[row[o].bo].order = o
              BY <1>1, <5>2, BookGrows
        <5> QED
            BY <5>3, <5>4
      <4> QED
          BY <3>1, <4>1, <4>2
    <3>2. CASE row'[o].bo = 0 /\ row'[o].status = "CREATED"
          BY <3>2
    <3>3. CASE \E i \in SubmittedAttempts(o)' :
                  /\ attempts'[o][i].bo = row'[o].bo
                  /\ row'[o].bo \in DOMAIN book' /\ book'[row'[o].bo].order = o
      <4>1. book' \in Seq(Listing)
            BY <1>1, TaskStep DEF StoreOK
      <4> QED
          BY <3>3, <4>1
    <3> QED
        BY <1>1, <3>1, <3>2, <3>3, RowBacked
  <2> QED
      BY <2>1, <2>2 DEF BackInv
<1>2. CASE Crash
  <2>1. /\ \A t \in Tasks : pc'[t] = "idle" /\ local'[t] = IdleFrame
        /\ UNCHANGED <<row, attempts, book>>
        BY <1>2 DEF Crash, db
  <2>2. AttemptsOwned' /\ KnowledgeOK'
        BY <2>1 DEF AttemptsOwned, KnowledgeOK, KnowsOK, Attempting, Busy, Submitting,
           Cancelling, Recovering, IdleFrame
  <2> QED
      BY <2>1, <2>2 DEF BackInv, AttemptsBacked, RowBackedByAttempt, SubmittedAttempts
<1>3. CASE UNCHANGED vars
      BY <1>3 DEF vars, db, BackInv, AttemptsBacked, AttemptsOwned, KnowledgeOK, KnowsOK,
         RowBackedByAttempt, SubmittedAttempts, IsNew
<1> QED
    BY <1>1, <1>2, <1>3 DEF Next

\* BackInv holds throughout.
LEMMA BackInvariant == Spec => []BackInv
<1>1. Init => BackInv
  <2> SUFFICES ASSUME Init PROVE BackInv
      OBVIOUS
  <2>1. AttemptsOwned /\ KnowledgeOK
        BY DEF Init, AttemptsOwned, KnowledgeOK, KnowsOK, Attempting, Busy, Submitting,
           Cancelling, Recovering, IdleFrame
  <2>2. AttemptsBacked /\ RowBackedByAttempt
        BY DEF Init, AttemptsBacked, RowBackedByAttempt, SubmittedAttempts, AbsentRow
  <2> QED
      BY <2>1, <2>2 DEF BackInv
<1> QED
    BY <1>1, NextBackInv, Invariance, PTL DEF Spec

\* The broker order that an order row names was issued for this order and is
\* recorded by an attempt, although a cancel, a recovery and the request that
\* placed the order commit over each other from rows they loaded earlier.
THEOREM RowsAreBacked == Spec => []RowBackedByAttempt
<1>1. BackInv => RowBackedByAttempt
      BY DEF BackInv
<1> QED
    BY <1>1, BackInvariant, PTL

-----------------------------------------------------------------------------
(* The outbox tells of the submissions that the attempts table records.    *)

SubmittedEvents(o) == {i \in DOMAIN events[o] : events[o][i] = "submitted"}

\* An event is appended to the outbox rows of an order.
LEMMA EventAppended ==
    ASSUME StoreOK, NEW o \in Orders, NEW e \in {"submitted", "cancelled"},
           events' = [events EXCEPT ![o] = Append(@, e)]
    PROVE  LET n == Len(events[o]) + 1 IN
           /\ n \notin SubmittedEvents(o)
           /\ SubmittedEvents(o)' = IF e = "submitted" THEN SubmittedEvents(o) \cup {n}
                                    ELSE SubmittedEvents(o)
           /\ events'[o] # <<>> /\ events'[o][Len(events'[o])] = e
           /\ \A p \in Orders : p # o => events'[p] = events[p]
<1> DEFINE n == Len(events[o]) + 1
<1>1. events[o] \in Seq({"submitted", "cancelled"})
      BY DEF StoreOK
<1>2. /\ events'[o] = Append(events[o], e)
      /\ \A p \in Orders : p # o => events'[p] = events[p]
      BY DEF StoreOK
<1>3. /\ DOMAIN events'[o] = DOMAIN events[o] \cup {n} /\ n \notin DOMAIN events[o]
      /\ \A i \in DOMAIN events[o] : events'[o][i] = events[o][i]
      /\ events'[o][n] = e /\ Len(events'[o]) = n /\ events'[o] # <<>>
      BY <1>1, <1>2
<1> HIDE DEF n
<1>4. SubmittedEvents(o)' = IF e = "submitted" THEN SubmittedEvents(o) \cup {n}
                            ELSE SubmittedEvents(o)
      BY <1>3 DEF SubmittedEvents
<1> QED
    BY <1>2, <1>3, <1>4 DEF SubmittedEvents, n

\* Both sets are finite.
LEMMA CountsFinite ==
    ASSUME StoreOK, NEW o \in Orders
    PROVE  IsFiniteSet(SubmittedEvents(o)) /\ IsFiniteSet(SubmittedAttempts(o))
<1>1. /\ Len(events[o]) \in Int /\ DOMAIN events[o] = 1..Len(events[o])
      /\ Len(attempts[o]) \in Int /\ DOMAIN attempts[o] = 1..Len(attempts[o])
      BY DEF StoreOK
<1>2. 1 \in Int
      OBVIOUS
<1>3. IsFiniteSet(DOMAIN events[o]) /\ IsFiniteSet(DOMAIN attempts[o])
      BY <1>1, <1>2, FS_Interval
<1>4. /\ SubmittedEvents(o) \in SUBSET DOMAIN events[o]
      /\ SubmittedAttempts(o) \in SUBSET DOMAIN attempts[o]
      BY DEF SubmittedEvents, SubmittedAttempts
<1> QED
    BY <1>3, <1>4, FS_Subset

\* An acceptance adds one submitted attempt and one event; nothing else adds
\* or takes away either.
LEMMA EventsStep ==
    ASSUME StoreOK, TasksOK, BackInv, EventsMatchAttempts,
           NEW t \in Tasks, Step(t) \/ Request(t)
    PROVE  EventsMatchAttempts'
<1> SUFFICES ASSUME NEW o \in Orders
             PROVE  Cardinality(SubmittedEvents(o)') = Cardinality(SubmittedAttempts(o)')
    BY DEF EventsMatchAttempts, SubmittedEvents, SubmittedAttempts
<1>1. Cardinality(SubmittedEvents(o)) = Cardinality(SubmittedAttempts(o))
      BY DEF EventsMatchAttempts, SubmittedEvents
<1>2. AttemptsOwned
      BY DEF BackInv
<1>3. CASE RecordSuccess(t) /\ o = cur[t]
  <2> DEFINE i == local[t].att
             n == Len(events[o]) + 1
  <2>1. n \notin SubmittedEvents(o) /\ SubmittedEvents(o)' = SubmittedEvents(o) \cup {n}
        BY <1>3, RecordEffect, EventAppended
  <2>2. i \notin SubmittedAttempts(o) /\ i \in SubmittedAttempts(o)'
    <3>1. /\ pc[t] \in Attempting /\ i \in DOMAIN attempts[o]
          /\ DOMAIN attempts'[o] = DOMAIN attempts[o]
          /\ attempts'[o][i].status = "submitted"
          BY <1>3, RecordEffect DEF Attempting
    <3>2. attempts[o][i].status = "submitting"
          BY <1>2, <1>3, <3>1 DEF AttemptsOwned
    <3> QED
        BY <3>1, <3>2 DEF SubmittedAttempts
  <2> HIDE DEF i, n
  <2>3. SubmittedAttempts(o)' = SubmittedAttempts(o) \cup {i}
    <3>1. \A j \in SubmittedAttempts(o) : j \in SubmittedAttempts(o)'
          BY <1>2, SubmittedKept
    <3>2. \A j \in SubmittedAttempts(o)' : j \in SubmittedAttempts(o) \cup {i}
          BY SubmittedNew DEF i
    <3> QED
        BY <2>2, <3>1, <3>2
  <2>4. Cardinality(SubmittedEvents(o) \cup {n}) = Cardinality(SubmittedEvents(o)) + 1
        BY <2>1, CountsFinite, FS_AddElement
  <2>5. Cardinality(SubmittedAttempts(o) \cup {i}) = Cardinality(SubmittedAttempts(o)) + 1
        BY <2>2, CountsFinite, FS_AddElement
  <2> QED
      BY <1>1, <2>1, <2>3, <2>4, <2>5
<1>4. CASE ~(RecordSuccess(t) /\ o = cur[t])
  <2>1. SubmittedAttempts(o)' = SubmittedAttempts(o)
    <3>1. \A j \in SubmittedAttempts(o) : j \in SubmittedAttempts(o)'
          BY <1>2, SubmittedKept
    <3>2. \A j \in SubmittedAttempts(o)' : j \in SubmittedAttempts(o)
          BY <1>4, SubmittedNew
    <3> QED
        BY <3>1, <3>2
  <2>2. SubmittedEvents(o)' = SubmittedEvents(o)
    <3>1. CASE events'[o] = events[o]
          BY <3>1 DEF SubmittedEvents
    <3>2. CASE Cancels(t) /\ o = cur[t]
          BY <3>2, CancelsEffect, EventAppended
    <3>3. CASE (RecordSuccess(t) \/ Cancels(t)) /\ o # cur[t]
      <4>1. events'[o] = events[o]
            BY <3>3, RecordEffect, CancelsEffect, EventAppended
      <4> QED
          BY <3>1, <4>1
    <3> QED
        BY <1>4, <3>1, <3>2, <3>3, TablesStep
  <2> QED
      BY <1>1, <2>1, <2>2
<1> QED
    BY <1>3, <1>4

\* However requests, cancels, scans and crashes interleave, the outbox holds
\* one "submitted" event for each attempt row marked submitted and no other:
\* both are written by one commit, and no attempt is submitted twice.
THEOREM EventsTellSubmissions == Spec => []EventsMatchAttempts
<1>1. Init => EventsMatchAttempts
  <2> SUFFICES ASSUME Init, NEW o \in Orders
               PROVE  Cardinality(SubmittedEvents(o)) = Cardinality(SubmittedAttempts(o))
      BY DEF EventsMatchAttempts, SubmittedEvents
  <2>1. SubmittedEvents(o) = {} /\ SubmittedAttempts(o) = {}
        BY DEF Init, SubmittedEvents, SubmittedAttempts
  <2> QED
      BY <2>1
<1>2. ASSUME IInv, BackInv, EventsMatchAttempts, [Next]_vars
      PROVE  EventsMatchAttempts'
  <2>1. CASE UNCHANGED <<attempts, events>>
        BY <1>2, <2>1 DEF EventsMatchAttempts, SubmittedAttempts
  <2>2. CASE Crash \/ UNCHANGED vars
        BY <2>1, <2>2 DEF Crash, vars, db
  <2>3. ASSUME NEW t \in Tasks, Step(t) \/ Request(t)
        PROVE  EventsMatchAttempts'
        BY <1>2, <2>3, EventsStep DEF IInv
  <2> QED
      BY <1>2, <2>2, <2>3 DEF Next
<1> QED
    BY <1>1, <1>2, Invariance, BackInvariant, PTL DEF Spec

-----------------------------------------------------------------------------
(* An attempt down the chain has a recorded failover behind it.            *)

LedTo(o, b) == \E a \in Brokers : <<a, b>> \in failovers[o]

\* A task that stands at a later candidate came there over a failover event.
LedHere(t) ==
    pc[t] \in Walking /\ InChain(t) /\ local[t].idx > 1 => LedTo(cur[t], Candidate(t))
TrailInv == FailoverTrail /\ \A t \in Tasks : LedHere(t)

\* Failover events are never taken back.
LEMMA TrailGrows ==
    ASSUME StoreOK, TasksOK, NEW t \in Tasks, Step(t) \/ Request(t)
    PROVE  \A o \in Orders : failovers[o] \subseteq failovers'[o]
BY TablesStep, NextEffect

\* A task at work stays led: it goes on only where a failover event leads.
LEMMA LedStep ==
    ASSUME StoreOK, TasksOK, TrailInv, NEW t \in Tasks, Step(t) \/ Request(t),
           NEW u \in Tasks
    PROVE  LedHere(u)'
<1>1. LedHere(u) /\ (pc[u] \in Walking => cur[u] \in Orders)
      BY AtWork DEF TrailInv, Walking
<1>2. ASSUME pc[u] \in Walking, cur'[u] = cur[u], local'[u].idx = local[u].idx,
             local'[u].chain = local[u].chain
      PROVE  LedHere(u)'
  <2>1. InChain(u)' = InChain(u) /\ Candidate(u)' = Candidate(u)
        BY <1>2 DEF InChain, Candidate
  <2>2. InChain(u) /\ local[u].idx > 1 => LedTo(cur[u], Candidate(u))'
    <3>1. failovers[cur[u]] \subseteq failovers'[cur[u]]
          BY <1>1, <1>2, TrailGrows
    <3> QED
        BY <1>1, <1>2, <2>1, <3>1 DEF LedHere, LedTo
  <2> QED
      BY <1>2, <2>1, <2>2 DEF LedHere
<1>3. CASE u # t
  <2>1. pc'[u] = pc[u] /\ cur'[u] = cur[u] /\ local'[u] = local[u]
        BY <1>3, OthersKept
  <2> QED
      BY <1>2, <2>1 DEF LedHere
<1>4. CASE u = t /\ pc'[t] \notin Walking
      BY <1>4 DEF LedHere
<1>5. CASE u = t /\ pc'[t] \in Walking
  <2>1. CASE Insert(t) \/ CancelAtBroker(t) \/ LookupAttempts(t)
        BY <1>5, <2>1, InsertEffect, CancelAtBrokerEffect, LookupEffect DEF Walking
  <2>2. CASE \E o \in Orders : Cancel(t, o) \/ Recover(t, o)
        BY <1>5, <2>2, CancelEffect, RecoverEffect DEF Walking
  <2>3. CASE StartAttempt(t)
        BY <1>2, <1>5, <2>3, StartAttemptEffect DEF Walking
  <2>4. CASE BrokerAccepts(t)
        BY <1>2, <1>5, <2>4, AcceptEffect DEF Walking
  <2>5. CASE AttemptFails(t)
        BY <1>2, <1>5, <2>5, AttemptFailsEffect DEF Walking
  <2>6. CASE Consume(t)
        BY <1>2, <1>5, <2>6 DEF Consume, Walking
  <2>7. CASE Route(t)
        BY <1>5, <2>7, RouteEffect DEF LedHere
  <2>8. CASE Reroute(t) \/ Failover(t)
    <3> DEFINE n == local[t].idx + 1
    <3>1. /\ cur[t] \in Orders /\ cur' = cur /\ local[t].idx \in Nat
          /\ local'[t].chain = local[t].chain /\ local'[t].idx = n
          /\ local[t].idx < Len(local[t].chain) =>
                /\ Candidate(t) \in Brokers
                /\ <<Candidate(t), local[t].chain[n]>> \in failovers'[cur[t]]
          BY <2>8, NextEffect
    <3>2. local[t].chain \in Seq(Brokers)
          BY FrameFields
    <3>3. InChain(t)' => local[t].idx < Len(local[t].chain)
          BY <3>1, <3>2 DEF InChain
    <3>4. Candidate(t)' = local[t].chain[n]
          BY <3>1 DEF Candidate
    <3>5. InChain(t)' => \E a \in Brokers : <<a, Candidate(t)'>> \in failovers'[cur'[t]]
          BY <3>1, <3>3, <3>4
    <3> QED
        BY <1>5, <3>5 DEF LedHere, LedTo
  <2>9. pc'[t] \in Busy
        BY <1>5 DEF Walking, Busy, Submitting
  <2> QED
      BY <2>1, <2>2, <2>3, <2>4, <2>5, <2>6, <2>7, <2>8, <2>9, OwnStep DEF Walks
<1> QED
    BY <1>3, <1>4, <1>5

\* The attempts keep their trail, and a new one has the one its task has.
LEMMA TrailStep ==
    ASSUME StoreOK, TasksOK, TrailInv, NEW t \in Tasks, Step(t) \/ Request(t)
    PROVE  FailoverTrail'
<1> SUFFICES ASSUME NEW o \in Orders, NEW i \in DOMAIN attempts'[o], attempts'[o][i].no > 1
             PROVE  \E b \in Brokers : <<b, attempts'[o][i].broker>> \in failovers'[o]
    BY DEF FailoverTrail
<1>1. ASSUME i \in DOMAIN attempts[o], attempts'[o][i].no = attempts[o][i].no,
             attempts'[o][i].broker = attempts[o][i].broker
      PROVE  \E b \in Brokers : <<b, attempts'[o][i].broker>> \in failovers'[o]
  <2>1. \E b \in Brokers : <<b, attempts[o][i].broker>> \in failovers[o]
        BY <1>1 DEF TrailInv, FailoverTrail
  <2>2. failovers[o] \subseteq failovers'[o]
        BY TrailGrows
  <2> QED
      BY <1>1, <2>1, <2>2
<1>2. CASE attempts' = attempts
      BY <1>1, <1>2
<1>3. CASE RecordSuccess(t) \/ AttemptFails(t)
  <2>1. /\ i \in DOMAIN attempts[o] /\ attempts'[o][i].no = attempts[o][i].no
        /\ attempts'[o][i].broker = attempts[o][i].broker
    <3>1. CASE RecordSuccess(t)
          BY <3>1, RecordEffect
    <3>2. CASE AttemptFails(t)
          BY <3>2, AttemptFailsEffect
    <3> QED
        BY <1>3, <3>1, <3>2
  <2> QED
      BY <1>1, <2>1
<1>4. CASE StartAttempt(t)
  <2> DEFINE n == Len(attempts[cur[t]]) + 1
  <2>1. /\ \A p \in Orders : DOMAIN attempts'[p] =
              IF p = cur[t] THEN DOMAIN attempts[p] \cup {n} ELSE DOMAIN attempts[p]
        /\ \A p \in Orders : \A j \in DOMAIN attempts[p] : attempts'[p][j] = attempts[p][j]
        /\ attempts'[cur[t]][n].no = local[t].idx
        /\ attempts'[cur[t]][n].broker = Candidate(t)
        BY <1>4, AttemptAdded
  <2> HIDE DEF n
  <2>2. CASE i \in DOMAIN attempts[o]
        BY <1>1, <2>1, <2>2
  <2>3. CASE o = cur[t] /\ i = n
    <3>1. pc[t] = "attempt" /\ InChain(t) /\ cur[t] \in Orders /\ failovers' = failovers
          BY <1>4, StartAttemptEffect
    <3>2. LedTo(cur[t], Candidate(t))
          BY <2>1, <2>3, <3>1 DEF TrailInv, LedHere, Walking
    <3> QED
        BY <2>1, <2>3, <3>1, <3>2 DEF LedTo
  <2> QED
      BY <2>1, <2>2, <2>3
<1> QED
    BY <1>2, <1>3, <1>4, TablesStep

\* Whatever the limiter and the brokers answer, and whichever task walks, an
\* attempt at a later candidate of a chain has a failover event to that broker.
THEOREM FailoversLeaveATrail == Spec => []FailoverTrail
<1>1. Init => TrailInv
      BY DEF Init, TrailInv, FailoverTrail, LedHere, Walking
<1>2. ASSUME IInv, TrailInv, [Next]_vars
      PROVE  TrailInv'
  <2>1. CASE UNCHANGED vars
        BY <1>2, <2>1 DEF vars, db, TrailInv, FailoverTrail, LedHere, LedTo, InChain, Candidate
  <2>2. CASE Crash
    <3>1. UNCHANGED <<attempts, failovers>> /\ \A t \in Tasks : pc'[t] = "idle"
          BY <2>2 DEF Crash, db
    <3> QED
        BY <1>2, <3>1 DEF TrailInv, FailoverTrail, LedHere, Walking
  <2>3. ASSUME NEW t \in Tasks, Step(t) \/ Request(t)
        PROVE  TrailInv'
        BY <1>2, <2>3, LedStep, TrailStep DEF IInv, TrailInv
  <2> QED
      BY <1>2, <2>1, <2>2, <2>3 DEF Next
<1>3. TrailInv => FailoverTrail
      BY DEF TrailInv
<1> QED
    BY <1>1, <1>2, <1>3, Invariance, PTL DEF Spec

-----------------------------------------------------------------------------
(* An order that no recovery took up while somebody submitted it or an      *)
(* acceptance was not recorded: however placing, cancelling and recovery    *)
(* overlap, wherever a task fails and whenever the process dies.            *)

\* The task that submits an order is the only one, it knows the broker that the
\* row names, and no other broker order exists than the one it is to record.
SubmitterOK(t) ==
    LET o == cur[t] IN
    pc[t] \in Submitting \cup Recovering /\ Sighted(o) =>
        /\ \A u \in Submitters(o) : u = t
        /\ row[o].bo = 0
        /\ row[o].status \in {"CREATED", "SUBMITTING", "CANCELLED"}
        /\ blind[o] = {} => row[o].status # "CANCELLED"
        /\ local[t].view.broker = row[o].broker
        /\ pc[t] \in Attempting => row[o].broker = Candidate(t)
        /\ pc[t] = "record" => book[local[t].view.bo].broker = Candidate(t)
        /\ pc[t] # "adopt"
        /\ \A i \in DOMAIN book : book[i].order = o => pc[t] = "record" /\ local[t].view.bo = i

\* A cancel still acts on what it found: the broker order that the row names,
\* or an order that nobody submits and no broker has.
CancellerOK(t) ==
    LET o == cur[t] IN
    /\ pc[t] \in {"cancelAtBroker", "recordCancel"} => local[t].view.bo # 0
    /\ pc[t] \in {"cancelAtBroker", "recordCancel"} /\ Sighted(o) =>
          local[t].view.bo = row[o].bo
    /\ pc[t] = "recordCancel" /\ Sighted(o) => book[local[t].view.bo].status = "cancelled"
    /\ pc[t] = "cancelLocally" /\ blind[o] = {} =>
          Submitters(o) = {} /\ \A i \in DOMAIN book : book[i].order # o

\* At most one broker has the order, its row names that broker once the
\* acceptance is recorded, and its last event is the one of its status.
OrderOK(o) ==
    /\ \A i \in DOMAIN book : book[i].order = o => ~IsNew(o)
    /\ Sighted(o) =>
        /\ \A i, j \in DOMAIN book : book[i].order = o /\ book[j].order = o => i = j
        /\ SubmittedAttempts(o) # {} => row[o].bo # 0
        /\ row[o].bo # 0 => /\ row[o].status \in {"SUBMITTED", "CANCELLED"}
                            /\ row[o].broker = book[row[o].bo].broker
        /\ row[o].status \in {"SUBMITTED", "CANCELLED"} =>
              /\ events[o] # <<>>
              /\ events[o][Len(events[o])] = IF row[o].status = "SUBMITTED"
                                            THEN "submitted" ELSE "cancelled"
    /\ row[o].status = "CANCELLED" /\ blind[o] = {} =>
          \A i \in DOMAIN book : book[i].order = o => book[i].status = "cancelled"

SightedInv ==
    /\ \A t \in Tasks : SubmitterOK(t) /\ CancellerOK(t)
    /\ \A o \in Orders : OrderOK(o)

\* What is blind stays blind, and what starts sighted has seen everything.
LEMMA BlindGrows ==
    ASSUME CountersOK, NEW t \in Tasks, Step(t) \/ Request(t), NEW o \in Orders
    PROVE  /\ blind[o] \subseteq blind'[o]
           /\ Recover(t, o) /\ "recovery" \notin blind'[o] => ~Hidden(o)
           /\ Recover(t, o) /\ blind'[o] = {} =>
                 \A u \in Tasks : cur[u] = o => pc[u] # "cancelLocally"
           /\ Cancel(t, o) /\ row[o].bo = 0 /\ blind'[o] = {} => ~Hidden(o)
<1>1. CASE blind' = blind /\ ~Recover(t, o) /\ ~Cancel(t, o)
      BY <1>1
<1>2. ASSUME NEW p \in Orders, Recover(t, p)
      PROVE  blind' = [blind EXCEPT ![p] = @ \cup BlindRecovery(p)]
      BY <1>2 DEF Recover
<1>3. ASSUME NEW p \in Orders, Cancel(t, p)
      PROVE  blind' = [blind EXCEPT ![p] = @ \cup BlindCancel(p)]
      BY <1>3 DEF Cancel
<1>4. blind[o] \subseteq blind'[o]
      BY <1>2, <1>3, BlindStep DEF CountersOK
<1>5. ASSUME Recover(t, o)
      PROVE  blind'[o] = blind[o] \cup BlindRecovery(o)
      BY <1>2, <1>5 DEF CountersOK
<1>6. ASSUME Cancel(t, o)
      PROVE  blind'[o] = blind[o] \cup BlindCancel(o)
      BY <1>3, <1>6 DEF CountersOK
<1> QED
    BY <1>4, <1>5, <1>6 DEF BlindRecovery, BlindCancel

\* The broker order an order row names is in the book.
LEMMA RowInBook ==
    ASSUME BackInv, NEW o \in Orders, row[o].bo # 0
    PROVE  row[o].bo \in DOMAIN book /\ book[row[o].bo].order = o
<1>1. PICK i \in SubmittedAttempts(o) : attempts[o][i].bo = row[o].bo
      BY DEF BackInv, RowBackedByAttempt
<1> QED
    BY <1>1 DEF BackInv, AttemptsBacked

\* A broker never revives an order.
LEMMA CancelledStays ==
    ASSUME StoreOK, TasksOK, NEW t \in Tasks, Step(t) \/ Request(t),
           NEW i \in DOMAIN book, book[i].status = "cancelled"
    PROVE  book'[i].status = "cancelled"
BY TablesStep, AcceptEffect, CancelAtBrokerEffect

\* An order comes to a book only from a task that submits it.
LEMMA ListingNew ==
    ASSUME StoreOK, TasksOK, NEW t \in Tasks, Step(t) \/ Request(t),
           NEW i \in DOMAIN book'
    PROVE  \/ i \in DOMAIN book /\ book'[i].order = book[i].order
           \/ /\ BrokerAccepts(t) /\ i = Len(book) + 1
              /\ pc[t] = "send" /\ book'[i].order = cur[t]
<1>1. CASE i \in DOMAIN book
      BY <1>1, BookGrows
<1>2. CASE i \notin DOMAIN book
  <2>1. BrokerAccepts(t)
        BY <1>2, TablesStep, CancelAtBrokerEffect
  <2> QED
      BY <1>2, <2>1, AcceptEffect
<1> QED
    BY <1>1, <1>2

\* A task submits an order from its insertion or from the start of a recovery on.
LEMMA SubmitsStep ==
    ASSUME StoreOK, TasksOK, NEW t \in Tasks, Step(t) \/ Request(t),
           pc'[t] \in Submitting \cup Recovering
    PROVE  \/ Insert(t)
           \/ \E o \in Orders : Recover(t, o)
           \/ /\ pc[t] \in Submitting \cup Recovering /\ cur'[t] = cur[t]
              /\ \/ StartAttempt(t) \/ BrokerAccepts(t) \/ AttemptFails(t)
                 \/ LookupAttempts(t) \/ Walks(t)
<1>1. CASE StartAttempt(t) \/ BrokerAccepts(t) \/ AttemptFails(t) \/ Walks(t)
      BY <1>1, StartAttemptEffect, AcceptEffect, AttemptFailsEffect DEF Walks, Submitting
<1>2. CASE CancelAtBroker(t) \/ \E o \in Orders : Cancel(t, o)
      BY <1>2, CancelAtBrokerEffect, CancelEffect DEF Submitting, Recovering
<1>3. CASE LookupAttempts(t)
      BY <1>3, LookupEffect DEF Recovering
<1>4. pc'[t] \in Busy
      BY DEF Busy
<1> QED
    BY <1>1, <1>2, <1>3, <1>4, OwnStep

\* How the row of a sighted order changes, and who changes it.
LEMMA SightedRow ==
    ASSUME StoreOK, TasksOK, BackInv, SightedInv, NEW t \in Tasks, Step(t) \/ Request(t),
           NEW o \in Orders, Sighted(o)
    PROVE  \/ row'[o] = row[o] /\ events'[o] = events[o]
           \/ o = cur[t] /\ Insert(t)
           \/ /\ o = cur[t] /\ pc[t] \in Submitting /\ events' = events
              /\ row'[o].status \in {row[o].status, "SUBMITTING", "FAILED"}
              /\ row'[o].bo = row[o].bo /\ row[o].bo = 0
           \/ o = cur[t] /\ RecordSuccess(t)
           \/ /\ o = cur[t] /\ Cancels(t) /\ row'[o].status = "CANCELLED"
              /\ row'[o].broker = row[o].broker /\ row'[o].bo = row[o].bo
<1>1. CASE o # cur[t]
  <2>1. events'[o] = events[o]
        BY <1>1, TablesStep, RecordEffect, CancelsEffect, EventAppended
  <2> QED
      BY <1>1, <2>1, OthersKept
<1>2. CASE o = cur[t] /\ GivesUp(t)
      BY <1>2, GiveUpEffect DEF Submitting, SightedInv, SubmitterOK
<1>3. CASE o = cur[t] /\ StartAttempt(t)
      BY <1>3, StartAttemptEffect DEF Submitting, SightedInv, SubmitterOK
<1>4. CASE o = cur[t] /\ Cancels(t)
  <2>1. /\ pc[t] \in Cancelling
        /\ row'[o].status = IF local[t].view.status # "CANCELLED" THEN "CANCELLED"
                            ELSE row[o].status
        /\ row'[o].broker = row[o].broker /\ row'[o].bo = row[o].bo
        BY <1>4, CancelsEffect DEF Cancelling
  <2>2. local[t].view.status # "CANCELLED"
        BY <2>1 DEF BackInv, KnowledgeOK, KnowsOK
  <2> QED
      BY <1>4, <2>1, <2>2
<1>5. CASE o = cur[t] /\ Adopt(t)
      BY <1>5, AdoptEffect DEF Recovering, SightedInv, SubmitterOK
<1>6. CASE row' = row /\ events' = events
      BY <1>6
<1> QED
    BY <1>1, <1>2, <1>3, <1>4, <1>5, <1>6, TablesStep

\* The rest of what SubmitterOK says of an order stays while others act on it.
LEMMA SubmitterKept ==
    ASSUME StoreOK, TasksOK, CountersOK, BackInv, SightedInv,
           NEW t \in Tasks, Step(t) \/ Request(t),
           NEW u \in Tasks \ {t}, pc[u] \in Submitting \cup Recovering,
           "recovery" \notin blind'[cur[u]]
    PROVE  SubmitterOK(u)'
<1> DEFINE o == cur[u]
<1>1. o \in Orders /\ ~IsNew(o)
      BY AtWork DEF BackInv, KnowledgeOK, KnowsOK, Busy, Submitting, Recovering
<1>2. blind[o] \subseteq blind'[o] /\ Sighted(o)
      BY <1>1, BlindGrows DEF Sighted
<1>3. pc'[u] = pc[u] /\ cur'[u] = o /\ local'[u] = local[u] /\ Candidate(u)' = Candidate(u)
      BY OthersKept DEF Candidate
<1>4. /\ row[o].bo = 0 /\ \A v \in Submitters(o) : v = u
      /\ row[o].status \in {"CREATED", "SUBMITTING", "CANCELLED"}
      /\ blind[o] = {} => row[o].status # "CANCELLED"
      /\ local[u].view.broker = row[o].broker
      /\ pc[u] \in Attempting => row[o].broker = Candidate(u)
      /\ pc[u] = "record" => book[local[u].view.bo].broker = Candidate(u)
      /\ pc[u] # "adopt"
      /\ \A i \in DOMAIN book : book[i].order = o => pc[u] = "record" /\ local[u].view.bo = i
      BY <1>2 DEF SightedInv, SubmitterOK
<1>5. u \in Submitters(o)
      BY DEF Submitters, Recovering
<1>6. pc[t] \in Submitting \cup Recovering => cur[t] # o
      BY <1>4 DEF Submitters, Recovering
<1> HIDE DEF o
<1>7. \A v \in Tasks \ {u} : pc'[v] \in Submitting \cup Recovering => cur'[v] # o
  <2> SUFFICES ASSUME NEW v \in Tasks \ {u}, cur'[v] = o, pc'[v] \in Submitting \cup Recovering
               PROVE  FALSE
      OBVIOUS
  <2>1. CASE v # t
        BY <1>4, <2>1, OthersKept DEF Submitters, Recovering
  <2>2. CASE v = t
    <3>1. ~Insert(t)
          BY <1>1, <2>2, InsertEffect
    <3>2. ASSUME NEW p \in Orders, Recover(t, p)
          PROVE  FALSE
      <4>1. p = o
            BY <2>2, <3>2, RecoverEffect
      <4> QED
          BY <1>1, <1>5, <3>2, <4>1, BlindGrows DEF o, Hidden
    <3> QED
        BY <1>6, <2>2, <3>1, <3>2, SubmitsStep
  <2> QED
      BY <2>1, <2>2
<1>8. /\ row'[o].bo = 0 /\ row'[o].broker = row[o].broker
      /\ row'[o].status \in {"CREATED", "SUBMITTING", "CANCELLED"}
      /\ blind'[o] = {} => row'[o].status # "CANCELLED"
  <2>1. ~(o = cur[t] /\ Insert(t))
        BY <1>1, InsertEffect
  <2>2. ~(o = cur[t] /\ RecordSuccess(t))
        BY <1>6, RecordEffect DEF Submitting
  <2>3. CASE row'[o] = row[o]
        BY <1>2, <1>4, <2>3 DEF o
  <2>4. CASE /\ o = cur[t] /\ Cancels(t) /\ row'[o].status = "CANCELLED"
             /\ row'[o].broker = row[o].broker /\ row'[o].bo = row[o].bo
    <3>1. pc[t] \in {"cancelLocally", "recordCancel"}
          BY <2>4, CancelsEffect
    <3>2. pc[t] # "recordCancel"
          BY <1>2, <1>4, <2>4 DEF o, SightedInv, CancellerOK
    <3>3. blind[o] # {}
          BY <1>5, <2>4, <3>1, <3>2 DEF o, SightedInv, CancellerOK
    <3> QED
        BY <1>2, <1>4, <2>4, <3>3 DEF o
  <2> QED
      BY <1>1, <1>2, <1>6, <2>1, <2>2, <2>3, <2>4, SightedRow
<1>9. \A i \in DOMAIN book' : book'[i].order = o => pc[u] = "record" /\ local[u].view.bo = i
      BY <1>4, <1>6, ListingNew DEF o, Submitting
<1>10. pc[u] = "record" => book'[local[u].view.bo].broker = Candidate(u)
       BY <1>4, BookGrows DEF BackInv, KnowledgeOK, KnowsOK
<1> QED
    BY <1>3, <1>4, <1>7, <1>8, <1>9, <1>10 DEF SubmitterOK, Submitters, Recovering, o

\* The step of a task that goes on submitting, or starts to.
LEMMA SubmitterMoves ==
    ASSUME StoreOK, TasksOK, CountersOK, BackInv, SightedInv,
           NEW t \in Tasks, Step(t) \/ Request(t),
           pc'[t] \in Submitting \cup Recovering, "recovery" \notin blind'[cur'[t]]
    PROVE  SubmitterOK(t)'
<1> DEFINE o == cur'[t]
<1>1. \A u \in Tasks \ {t} : pc'[u] = pc[u] /\ cur'[u] = cur[u] /\ local'[u] = local[u]
      BY OthersKept
<1>2. ASSUME \A u \in Tasks \ {t} : pc[u] \in Submitting \cup Recovering => cur[u] # o
      PROVE  \A u \in Tasks \ {t} : pc'[u] \in Submitting \cup Recovering => cur'[u] # o
      BY <1>1, <1>2
<1>3. CASE Insert(t)
  <2>1. /\ cur[t] \in Orders /\ o = cur[t] /\ pc'[t] = "route" /\ IsNew(o)
        /\ row'[o].status = "CREATED" /\ row'[o].bo = 0 /\ local'[t].view = row'[o]
        /\ book' = book
        BY <1>3, InsertEffect
  <2>2. \A u \in Tasks \ {t} : pc[u] \in Submitting \cup Recovering => cur[u] # o
        BY <2>1 DEF BackInv, KnowledgeOK, KnowsOK, Busy
  <2>3. \A i \in DOMAIN book' : book'[i].order # o
        BY <2>1 DEF SightedInv, OrderOK
  <2> HIDE DEF o
  <2> QED
      BY <1>2, <2>1, <2>2, <2>3 DEF SubmitterOK, Submitters, Recovering, Attempting, o
<1>4. ASSUME NEW p \in Orders, Recover(t, p)
      PROVE  SubmitterOK(t)'
  <2>1. /\ o = p /\ pc'[t] = "lookup" /\ local'[t].view = row[p] /\ p \in local[t].todo
        /\ row[p].status \notin Terminal /\ row' = row /\ book' = book
        /\ attempts' = attempts
        BY <1>4, RecoverEffect DEF db
  <2>2. blind[p] \subseteq blind'[p] /\ ~Hidden(p) /\ Sighted(p)
        BY <1>4, <2>1, BlindGrows DEF Sighted
  <2>3. row[p].status \in {"CREATED", "SUBMITTING"}
    <3>1. ~IsNew(p)
          BY <2>1 DEF BackInv, KnowledgeOK, KnowsOK
    <3> QED
        BY <2>1, <3>1 DEF StoreOK, Row, Statuses, Terminal, IsNew
  <2>4. row[p].bo = 0 /\ SubmittedAttempts(p) = {}
        BY <2>2, <2>3 DEF SightedInv, OrderOK
  <2>5. \A i \in DOMAIN book : book[i].order # p
        BY <2>2, <2>4 DEF Hidden, Unrecorded
  <2>6. \A u \in Tasks : pc[u] \in Submitting \cup Recovering => cur[u] # o
        BY <2>1, <2>2 DEF Hidden, Submitters, Recovering
  <2> HIDE DEF o
  <2> QED
      BY <1>2, <2>1, <2>3, <2>4, <2>5, <2>6 DEF SubmitterOK, Submitters, Recovering, Attempting, o
<1>5. ASSUME pc[t] \in Submitting \cup Recovering, cur'[t] = cur[t]
      PROVE  /\ o = cur[t] /\ o \in Orders /\ blind[o] \subseteq blind'[o]
             /\ \A u \in Tasks \ {t} : pc'[u] \in Submitting \cup Recovering => cur'[u] # o
             /\ row[o].bo = 0 /\ row[o].status \in {"CREATED", "SUBMITTING", "CANCELLED"}
             /\ blind'[o] = {} => row[o].status # "CANCELLED"
             /\ local[t].view.broker = row[o].broker
             /\ pc[t] # "record" => \A i \in DOMAIN book : book[i].order # o
  <2>1. o = cur[t] /\ o \in Orders
        BY <1>5, AtWork DEF Submitting, Recovering
  <2>2. blind[o] \subseteq blind'[o] /\ Sighted(o)
        BY <2>1, BlindGrows DEF Sighted
  <2>3. SubmitterOK(t)
        BY DEF SightedInv
  <2>4. \A u \in Tasks \ {t} : pc[u] \in Submitting \cup Recovering => cur[u] # o
        BY <1>5, <2>1, <2>2, <2>3 DEF SubmitterOK, Submitters, Recovering
  <2> QED
      BY <1>2, <1>5, <2>1, <2>2, <2>3, <2>4 DEF SubmitterOK
<1>6. CASE StartAttempt(t)
  <2>1. /\ pc[t] = "attempt" /\ pc'[t] = "send" /\ cur'[t] = cur[t]
        /\ row'[cur[t]].status = IF local[t].view.status # "SUBMITTING" THEN "SUBMITTING"
                                 ELSE row[cur[t]].status
        /\ row'[cur[t]].broker = IF local[t].view.broker # Candidate(t) THEN Candidate(t)
                                 ELSE row[cur[t]].broker
        /\ row'[cur[t]].bo = row[cur[t]].bo /\ local'[t].view.broker = Candidate(t)
        /\ local'[t].chain = local[t].chain /\ local'[t].idx = local[t].idx
        /\ book' = book
        BY <1>6, StartAttemptEffect
  <2>2. Candidate(t)' = Candidate(t) /\ pc[t] \in Submitting
        BY <2>1 DEF Candidate, Submitting
  <2> HIDE DEF o
  <2> QED
      BY <1>5, <2>1, <2>2 DEF SubmitterOK, Submitters, Recovering, Attempting, o
<1>7. CASE BrokerAccepts(t)
  <2>1. /\ pc[t] = "send" /\ pc'[t] = "record" /\ cur'[t] = cur[t] /\ row' = row
        /\ local'[t].view.broker = local[t].view.broker
        /\ local'[t].view.bo = Len(book) + 1
        /\ book'[Len(book) + 1].broker = Candidate(t)
        /\ local'[t].chain = local[t].chain /\ local'[t].idx = local[t].idx
        BY <1>7, AcceptEffect
  <2>2. Candidate(t)' = Candidate(t) /\ pc[t] \in Submitting /\ pc[t] \in Attempting
        BY <2>1 DEF Candidate, Submitting, Attempting
  <2>3. row[o].broker = Candidate(t)
        BY <1>5, <2>1, <2>2 DEF SightedInv, SubmitterOK, Sighted
  <2>4. \A i \in DOMAIN book' : book'[i].order = o => i = Len(book) + 1
        BY <1>5, <2>1, <2>2, ListingNew
  <2> HIDE DEF o
  <2> QED
      BY <1>5, <2>1, <2>2, <2>3, <2>4 DEF SubmitterOK, Submitters, Recovering, Attempting, o
<1>8. CASE AttemptFails(t) \/ Walks(t)
  <2>1. /\ pc[t] \in Submitting \ {"record"} /\ cur'[t] = cur[t] /\ row' = row /\ book' = book
        /\ local'[t].view = local[t].view
        /\ pc'[t] \in {"failover", "reject", "consume", "attempt"}
    <3>1. CASE AttemptFails(t)
          BY <3>1, AttemptFailsEffect DEF Submitting
    <3>2. CASE Walks(t)
          BY <3>2 DEF Walks, Submitting, Route, Consume, Reroute, Failover, db
    <3> QED
        BY <1>8, <3>1, <3>2
  <2> HIDE DEF o
  <2> QED
      BY <1>5, <2>1 DEF SubmitterOK, Submitters, Recovering, Attempting, o
<1>9. CASE LookupAttempts(t)
  <2>1. /\ pc[t] = "lookup" /\ cur' = cur /\ local'[t].view = local[t].view /\ row' = row
        /\ \/ pc'[t] = "route"
           \/ pc'[t] = "adopt" /\ local'[t].att \in SubmittedAttempts(cur[t])
        /\ book' = book
        BY <1>9, LookupEffect DEF db
  <2>2. pc[t] \in Recovering
        BY <2>1 DEF Recovering
  <2>3. pc'[t] # "adopt"
    <3> SUFFICES ASSUME NEW i \in SubmittedAttempts(cur[t]) PROVE FALSE
        BY <2>1
    <3>1. /\ attempts[cur[t]][i].bo \in DOMAIN book
          /\ book[attempts[cur[t]][i].bo].order = cur[t]
          BY <1>5, <2>1, <2>2 DEF BackInv, AttemptsBacked
    <3> QED
        BY <1>5, <2>1, <2>2, <3>1
  <2> HIDE DEF o
  <2> QED
      BY <1>5, <2>1, <2>2, <2>3 DEF SubmitterOK, Submitters, Recovering, Attempting, o
<1> QED
    BY <1>3, <1>4, <1>6, <1>7, <1>8, <1>9, SubmitsStep

\* What a task knows that submits stays true.
LEMMA SubmitterStep ==
    ASSUME StoreOK, TasksOK, CountersOK, BackInv, SightedInv,
           NEW t \in Tasks, Step(t) \/ Request(t), NEW u \in Tasks
    PROVE  SubmitterOK(u)'
<1>1. CASE pc'[u] \notin Submitting \cup Recovering \/ "recovery" \in blind'[cur'[u]]
      BY <1>1 DEF SubmitterOK, Sighted
<1>2. CASE u # t
      BY <1>1, <1>2, SubmitterKept, OthersKept
<1>3. CASE u = t
      BY <1>1, <1>3, SubmitterMoves
<1> QED
    BY <1>2, <1>3

\* What a task knows that cancels stays true.
LEMMA CancellerStep ==
    ASSUME StoreOK, TasksOK, CountersOK, BackInv, SightedInv,
           NEW t \in Tasks, Step(t) \/ Request(t), NEW u \in Tasks
    PROVE  CancellerOK(u)'
<1>1. CASE pc'[u] \notin Cancelling
      BY <1>1 DEF CancellerOK, Cancelling
<1>2. ASSUME pc[u] \in Cancelling
      PROVE  /\ cur[u] \in Orders /\ ~IsNew(cur[u])
             /\ blind[cur[u]] \subseteq blind'[cur[u]]
      BY <1>2, AtWork, BlindGrows
      DEF BackInv, KnowledgeOK, KnowsOK, Busy, Submitting, Cancelling
<1>3. ASSUME pc[u] \in {"cancelAtBroker", "recordCancel"}, Sighted(cur[u])
      PROVE  /\ local[u].view.bo = row[cur[u]].bo /\ row[cur[u]].bo # 0
             /\ local[u].view.bo \in DOMAIN book
      BY <1>2, <1>3, RowInBook DEF SightedInv, CancellerOK, Cancelling
<1>4. CASE u # t /\ pc'[u] \in Cancelling
  <2> DEFINE o == cur[u]
  <2>1. pc'[u] = pc[u] /\ cur'[u] = o /\ local'[u] = local[u] /\ pc[u] \in Cancelling
        BY <1>4, OthersKept
  <2>2. o \in Orders /\ ~IsNew(o) /\ blind[o] \subseteq blind'[o] /\ CancellerOK(u)
        BY <1>2, <2>1 DEF SightedInv
  <2>3. ASSUME pc[u] \in {"cancelAtBroker", "recordCancel"}, Sighted(o)
        PROVE  row'[o].bo = row[o].bo
    <3>1. pc[t] \in Submitting => cur[t] # o
          BY <1>3, <2>3 DEF SightedInv, SubmitterOK
    <3>2. ~(o = cur[t] /\ RecordSuccess(t)) /\ ~(o = cur[t] /\ Insert(t))
          BY <2>2, <3>1, RecordEffect, InsertEffect DEF Submitting
    <3> QED
        BY <2>2, <2>3, <3>2, SightedRow
  <2>4. ASSUME pc[u] = "recordCancel", Sighted(o)
        PROVE  book'[local[u].view.bo].status = "cancelled"
        BY <1>3, <2>2, <2>4, CancelledStays DEF CancellerOK
  <2>5. ASSUME pc[u] = "cancelLocally", blind'[o] = {}
        PROVE  /\ \A v \in Tasks : pc'[v] \in Submitting \cup Recovering => cur'[v] # o
               /\ \A i \in DOMAIN book' : book'[i].order # o
    <3>1. /\ \A v \in Tasks : pc[v] \in Submitting \cup Recovering => cur[v] # o
          /\ \A i \in DOMAIN book : book[i].order # o
          BY <2>2, <2>5 DEF CancellerOK, Submitters, Recovering
    <3>2. \A i \in DOMAIN book' : book'[i].order # o
          BY <3>1, ListingNew DEF Submitting
    <3>3. ASSUME pc'[t] \in Submitting \cup Recovering, cur'[t] = o
          PROVE  FALSE
      <4>1. ~Insert(t)
            BY <2>2, <3>3, InsertEffect
      <4>2. ASSUME NEW p \in Orders, Recover(t, p)
            PROVE  FALSE
        <5>1. p = o
              BY <3>3, <4>2, RecoverEffect
        <5> QED
            BY <2>5, <4>2, <5>1, BlindGrows
      <4> QED
          BY <3>1, <3>3, <4>1, <4>2, SubmitsStep
    <3> QED
        BY <3>1, <3>2, <3>3, OthersKept
  <2>6. Sighted(o)' => Sighted(o)
        BY <2>1, <2>2 DEF Sighted
  <2> HIDE DEF o
  <2> QED
      BY <2>1, <2>2, <2>3, <2>4, <2>5, <2>6 DEF CancellerOK, Sighted, Submitters, Recovering, o
<1>5. CASE u = t /\ pc'[t] \in Cancelling
  <2>1. CASE CancelAtBroker(t)
    <3>1. /\ pc[t] = "cancelAtBroker" /\ pc'[t] = "recordCancel" /\ cur' = cur
          /\ local' = local /\ row' = row
          /\ \A i \in DOMAIN book :
                book'[i].status = IF i = local[t].view.bo THEN "cancelled" ELSE book[i].status
          BY <2>1, CancelAtBrokerEffect DEF db
    <3>2. Sighted(cur[t])' => Sighted(cur[t])
          BY <1>2, <1>5, <3>1 DEF Sighted, Cancelling
    <3>3. Sighted(cur[t]) => /\ local[t].view.bo = row[cur[t]].bo
                             /\ book'[local[t].view.bo].status = "cancelled"
          BY <1>3, <1>5, <3>1
    <3>4. local[t].view.bo # 0
          BY <3>1 DEF SightedInv, CancellerOK
    <3> QED
        BY <1>5, <3>1, <3>2, <3>3, <3>4 DEF CancellerOK
  <2>2. ASSUME NEW o \in Orders, Cancel(t, o)
        PROVE  CancellerOK(t)'
    <3>1. /\ pc'[t] = IF row[o].bo = 0 THEN "cancelLocally" ELSE "cancelAtBroker"
          /\ cur'[t] = o /\ local'[t].view = row[o] /\ row[o].status \in Cancellable
          /\ row' = row /\ book' = book
          /\ \A v \in Tasks \ {t} : pc'[v] = pc[v] /\ cur'[v] = cur[v]
          BY <2>2, CancelEffect DEF db
    <3>2. ASSUME row[o].bo = 0, blind'[o] = {}
          PROVE  /\ \A v \in Tasks : pc[v] \in Submitting \cup Recovering => cur[v] # o
                 /\ \A i \in DOMAIN book : book[i].order # o
      <4>1. ~Hidden(o) /\ blind[o] = {}
            BY <2>2, <3>2, BlindGrows
      <4>2. SubmittedAttempts(o) = {}
            BY <3>2, <4>1 DEF SightedInv, OrderOK, Sighted
      <4> QED
          BY <4>1, <4>2 DEF Hidden, Unrecorded, Submitters, Recovering
    <3>3. pc'[t] \notin Submitting \cup Recovering
          BY <3>1 DEF Submitting, Recovering
    <3> QED
        BY <3>1, <3>2, <3>3 DEF CancellerOK, Submitters, Recovering
  <2>3. ~Insert(t) /\ ~StartAttempt(t) /\ ~BrokerAccepts(t) /\ ~AttemptFails(t)
        /\ ~LookupAttempts(t) /\ ~Walks(t)
        BY <1>5, InsertEffect, StartAttemptEffect, AcceptEffect, AttemptFailsEffect,
           LookupEffect DEF Walks, Cancelling
  <2>4. ~\E o \in Orders : Recover(t, o)
        BY <1>5, RecoverEffect DEF Cancelling
  <2>5. pc'[t] \in Busy
        BY <1>5 DEF Busy
  <2> QED
      BY <1>5, <2>1, <2>2, <2>3, <2>4, <2>5, OwnStep
<1> QED
    BY <1>1, <1>4, <1>5

\* What the tables and the books tell of an order stays true.
LEMMA OrderStep ==
    ASSUME StoreOK, TasksOK, CountersOK, BackInv, SightedInv,
           NEW t \in Tasks, Step(t) \/ Request(t), NEW o \in Orders
    PROVE  OrderOK(o)'
<1>1. blind[o] \subseteq blind'[o] /\ OrderOK(o)
      BY BlindGrows DEF SightedInv
<1>2. (\A i \in DOMAIN book : book[i].order = o => ~IsNew(o))'
  <2> SUFFICES ASSUME NEW i \in DOMAIN book', book'[i].order = o
               PROVE  ~IsNew(o)'
      OBVIOUS
  <2>1. pc[t] = "send" /\ o = cur[t] => ~IsNew(o)
        BY DEF BackInv, KnowledgeOK, KnowsOK, Busy, Submitting
  <2>2. ~IsNew(o)
        BY <1>1, <2>1, ListingNew DEF OrderOK
  <2> QED
      BY <2>2, StepStays DEF RowsStay
<1>3. ASSUME "recovery" \notin blind'[o]
      PROVE  /\ \A i, j \in DOMAIN book' : book'[i].order = o /\ book'[j].order = o => i = j
             /\ SubmittedAttempts(o)' # {} => row'[o].bo # 0
             /\ row'[o].bo # 0 => /\ row'[o].status \in {"SUBMITTED", "CANCELLED"}
                                  /\ row'[o].broker = book'[row'[o].bo].broker
             /\ row'[o].status \in {"SUBMITTED", "CANCELLED"} =>
                   /\ events'[o] # <<>>
                   /\ events'[o][Len(events'[o])] = IF row'[o].status = "SUBMITTED"
                                                    THEN "submitted" ELSE "cancelled"
  <2>1. Sighted(o)
        BY <1>1, <1>3 DEF Sighted
  <2>2. \A i, j \in DOMAIN book' : book'[i].order = o /\ book'[j].order = o => i = j
    <3>1. pc[t] = "send" /\ cur[t] = o => \A i \in DOMAIN book : book[i].order # o
          BY <2>1 DEF SightedInv, SubmitterOK, Submitting
    <3> QED
        BY <1>1, <2>1, <3>1, ListingNew DEF OrderOK
  <2>3. CASE row'[o] = row[o] /\ events'[o] = events[o]
    <3>1. row[o].bo # 0 => book'[row[o].bo].broker = book[row[o].bo].broker
          BY RowInBook, BookGrows
    <3>2. ~(RecordSuccess(t) /\ o = cur[t])
      <4> SUFFICES ASSUME RecordSuccess(t), o = cur[t] PROVE FALSE
          OBVIOUS
      <4>1. row'[o].status = "SUBMITTED" /\ pc[t] \in Submitting
            BY RecordEffect DEF Submitting
      <4> QED
          BY <2>1, <2>3, <4>1 DEF SightedInv, SubmitterOK
    <3>3. SubmittedAttempts(o)' # {} => row[o].bo # 0
          BY <1>1, <2>1, <3>2, SubmittedNew DEF OrderOK
    <3> QED
        BY <1>1, <2>1, <2>2, <2>3, <3>1, <3>3 DEF OrderOK
  <2>4. CASE o = cur[t] /\ Insert(t)
    <3>1. IsNew(o) /\ row'[o].status = "CREATED" /\ row'[o].bo = 0 /\ attempts' = attempts
          BY <2>4, InsertEffect
    <3>2. SubmittedAttempts(o)' = {}
      <4> SUFFICES ASSUME NEW i \in SubmittedAttempts(o) PROVE FALSE
          BY <3>1 DEF SubmittedAttempts
      <4>1. attempts[o][i].bo \in DOMAIN book /\ book[attempts[o][i].bo].order = o
            BY DEF BackInv, AttemptsBacked
      <4> QED
          BY <1>1, <3>1, <4>1 DEF OrderOK
    <3> QED
        BY <2>2, <3>1, <3>2
  <2>5. CASE /\ o = cur[t] /\ pc[t] \in Submitting /\ events' = events
             /\ row'[o].status \in {row[o].status, "SUBMITTING", "FAILED"}
             /\ row'[o].bo = row[o].bo /\ row[o].bo = 0
    <3>1. ~RecordSuccess(t)
      <4>1. ASSUME RecordSuccess(t) PROVE FALSE
            BY <2>1, <2>5, <4>1, RecordEffect DEF SightedInv, SubmitterOK
      <4> QED
          BY <4>1
    <3>2. SubmittedAttempts(o)' = {}
          BY <1>1, <2>1, <2>5, <3>1, SubmittedNew DEF OrderOK
    <3> QED
        BY <1>1, <2>1, <2>2, <2>5, <3>2 DEF OrderOK
  <2>6. CASE o = cur[t] /\ RecordSuccess(t)
    <3>1. /\ pc[t] = "record" /\ row'[o].status = "SUBMITTED" /\ row'[o].broker = row[o].broker
          /\ row'[o].bo = local[t].view.bo /\ book' = book
          /\ events' = [events EXCEPT ![o] = Append(@, "submitted")]
          BY <2>6, RecordEffect
    <3>2. local[t].view.bo \in DOMAIN book /\ local[t].view.bo # 0
          BY <3>1 DEF BackInv, KnowledgeOK, KnowsOK, StoreOK
    <3>3. row[o].broker = book[local[t].view.bo].broker
          BY <2>1, <2>6, <3>1 DEF SightedInv, SubmitterOK, Submitting, Attempting
    <3>4. events'[o] # <<>> /\ events'[o][Len(events'[o])] = "submitted"
          BY <3>1, EventAppended
    <3> QED
        BY <2>2, <3>1, <3>2, <3>3, <3>4
  <2>7. CASE /\ o = cur[t] /\ Cancels(t) /\ row'[o].status = "CANCELLED"
             /\ row'[o].broker = row[o].broker /\ row'[o].bo = row[o].bo
    <3>1. /\ events' = [events EXCEPT ![o] = Append(@, "cancelled")]
          /\ book' = book /\ attempts' = attempts
          BY <2>7, CancelsEffect
    <3>2. events'[o] # <<>> /\ events'[o][Len(events'[o])] = "cancelled"
          BY <3>1, EventAppended
    <3>3. SubmittedAttempts(o)' = SubmittedAttempts(o)
          BY <3>1 DEF SubmittedAttempts
    <3> QED
        BY <1>1, <2>1, <2>2, <2>7, <3>1, <3>2, <3>3 DEF OrderOK
  <2> QED
      BY <2>1, <2>3, <2>4, <2>5, <2>6, <2>7, SightedRow
<1>4. ASSUME row'[o].status = "CANCELLED", blind'[o] = {},
             NEW i \in DOMAIN book', book'[i].order = o
      PROVE  book'[i].status = "cancelled"
  <2>1. Sighted(o) /\ blind[o] = {}
        BY <1>1, <1>4 DEF Sighted
  <2>2. CASE row[o].status = "CANCELLED"
    <3>1. pc[t] = "send" => cur[t] # o
          BY <2>1, <2>2 DEF SightedInv, SubmitterOK, Submitting
    <3>2. i \in DOMAIN book /\ book[i].order = o
          BY <1>4, <3>1, ListingNew
    <3>3. book[i].status = "cancelled"
          BY <1>1, <2>1, <2>2, <3>2 DEF OrderOK
    <3> QED
        BY <3>2, <3>3, CancelledStays
  <2>3. CASE row[o].status # "CANCELLED"
    <3>1. o = cur[t] /\ Cancels(t)
          BY <1>4, <2>1, <2>3, SightedRow, InsertEffect, RecordEffect
    <3>2. pc[t] \in {"cancelLocally", "recordCancel"} /\ book' = book
          BY <3>1, CancelsEffect
    <3>3. pc[t] = "recordCancel"
          BY <1>4, <2>1, <3>1, <3>2 DEF SightedInv, CancellerOK
    <3>4. /\ local[t].view.bo = row[o].bo /\ row[o].bo # 0
          /\ book[row[o].bo].status = "cancelled"
          BY <2>1, <3>1, <3>3 DEF SightedInv, CancellerOK
    <3>5. row[o].bo = i
          BY <1>1, <1>4, <2>1, <3>2, <3>4, RowInBook DEF OrderOK
    <3> QED
        BY <3>2, <3>4, <3>5
  <2> QED
      BY <2>2, <2>3
<1> QED
    BY <1>2, <1>3, <1>4 DEF OrderOK, Sighted

\* SightedInv holds throughout, for any constants.
LEMMA SightedInvariant == Spec => []SightedInv
<1>1. Init => SightedInv
  <2> SUFFICES ASSUME Init PROVE SightedInv
      OBVIOUS
  <2>1. \A t \in Tasks : pc[t] \notin Busy
        BY DEF Init, Busy, Submitting, Cancelling, Recovering
  <2>2. \A o \in Orders : row[o] = AbsentRow /\ SubmittedAttempts(o) = {}
        BY DEF Init, SubmittedAttempts
  <2>3. DOMAIN book = {}
        BY DEF Init
  <2>4. \A t \in Tasks : SubmitterOK(t) /\ CancellerOK(t)
        BY <2>1 DEF SubmitterOK, CancellerOK, Busy, Cancelling
  <2>5. \A o \in Orders : OrderOK(o)
        BY <2>2, <2>3 DEF OrderOK, AbsentRow
  <2> QED
      BY <2>4, <2>5 DEF SightedInv
<1>2. ASSUME IInv, BackInv, SightedInv, [Next]_vars
      PROVE  SightedInv'
  <2>1. CASE UNCHANGED vars
        BY <1>2, <2>1 DEF vars, db, SightedInv, SubmitterOK, CancellerOK, OrderOK, Sighted,
           Submitters, SubmittedAttempts, IsNew, Candidate
  <2>2. CASE Crash
    <3>1. /\ \A t \in Tasks : pc'[t] = "idle"
          /\ UNCHANGED <<row, attempts, events, book, blind>>
          BY <2>2 DEF Crash, db
    <3>2. \A t \in Tasks : SubmitterOK(t)' /\ CancellerOK(t)'
          BY <3>1 DEF SubmitterOK, CancellerOK, Submitting, Recovering
    <3>3. \A o \in Orders : OrderOK(o)'
          BY <1>2, <3>1 DEF SightedInv, OrderOK, Sighted, SubmittedAttempts, IsNew
    <3> QED
        BY <3>2, <3>3 DEF SightedInv
  <2>3. ASSUME NEW t \in Tasks, Step(t) \/ Request(t)
        PROVE  SightedInv'
        BY <1>2, <2>3, SubmitterStep, CancellerStep, OrderStep DEF IInv, SightedInv
  <2> QED
      BY <1>2, <2>1, <2>2, <2>3 DEF Next
<1> QED
    BY <1>1, <1>2, Invariance, BackInvariant, PTL DEF Spec

\* One client_order_id buys at most once unless a recovery of it was blind: any
\* number of requests, cancels, scans and crashes, overlapping in any way, and
\* any acceptance lost on the way, change nothing else.
THEOREM BuysAtMostOnce == Spec => []AtMostOneAccepted
<1>1. ASSUME StoreOK, SightedInv
      PROVE  AtMostOneAccepted
  <2> SUFFICES ASSUME NEW i \in DOMAIN book, NEW j \in DOMAIN book,
                      book[i].order = book[j].order, Sighted(book[i].order)
               PROVE  i = j
      BY DEF AtMostOneAccepted
  <2>1. book[i] \in Listing
        BY <1>1 DEF StoreOK
  <2>2. book[i].order \in Orders
        BY <2>1 DEF Listing
  <2> QED
      BY <1>1, <2>2 DEF SightedInv, OrderOK
<1>2. IInv => StoreOK
      BY DEF IInv
<1> QED
    BY <1>1, <1>2, Invariance, SightedInvariant, PTL

\* A cancelled order is live at no broker unless a cancel or a recovery of it
\* was blind: the broker was called before the order was marked, or nobody had
\* brought it to a broker, nor has since.
THEOREM CancelledIsNotLive == Spec => []CancelledNotLive
<1>1. SightedInv => CancelledNotLive
      BY DEF SightedInv, OrderOK, CancelledNotLive
<1> QED
    BY <1>1, SightedInvariant, PTL

\* The last event of an order tells whether it is live or cancelled, although
\* cancels commit over a task that places or recovers it.
THEOREM EventsTellStatus == Spec => []LastEventTellsStatus
<1>1. SightedInv => LastEventTellsStatus
      BY DEF SightedInv, OrderOK, LastEventTellsStatus
<1> QED
    BY <1>1, SightedInvariant, PTL

\* The broker account of a submitted order is the one whose book holds its
\* broker order, although the request and any number of recoveries have walked
\* down different chains and cancels committed in between.
THEOREM RowsNameTheirBroker == Spec => []RowNamesItsBroker
<1>1. BackInv /\ SightedInv => RowNamesItsBroker
      BY DEF BackInv, RowBackedByAttempt, SightedInv, OrderOK, RowNamesItsBroker
<1> QED
    BY <1>1, BackInvariant, SightedInvariant, PTL

\* A submitted order can only be cancelled: no late commit of a task that
\* placed, recovered or cancelled it takes it back or moves it.
THEOREM SubmittedStaysSettled == Spec => SubmittedIsSettled
<1> DEFINE Settled == \A o \in Orders : row[o].status = "SUBMITTED" /\ Sighted(o) =>
                         row'[o] \in {row[o], [row[o] EXCEPT !.status = "CANCELLED"]}
<1>1. ASSUME IInv, BackInv, SightedInv, [Next]_vars
      PROVE  [Settled]_vars
  <2>1. CASE UNCHANGED vars
        BY <2>1
  <2>2. CASE Crash
        BY <2>2 DEF Crash, db
  <2>3. ASSUME NEW t \in Tasks, Step(t) \/ Request(t), NEW o \in Orders,
               row[o].status = "SUBMITTED", Sighted(o)
        PROVE  row'[o] \in {row[o], [row[o] EXCEPT !.status = "CANCELLED"]}
    <3>1. row[o] \in Row /\ row'[o] \in Row
          BY <1>1, <2>3, TaskStep DEF IInv, StoreOK
    <3>2. pc[t] \in Submitting => cur[t] # o
          BY <1>1, <2>3 DEF SightedInv, SubmitterOK
    <3>3. ~(o = cur[t] /\ Insert(t)) /\ ~(o = cur[t] /\ RecordSuccess(t))
          BY <1>1, <2>3, <3>2, InsertEffect, RecordEffect DEF IInv, IsNew, Submitting
    <3>4. \/ row'[o] = row[o]
          \/ /\ row'[o].status = "CANCELLED" /\ row'[o].broker = row[o].broker
             /\ row'[o].bo = row[o].bo
          BY <1>1, <2>3, <3>2, <3>3, SightedRow DEF IInv
    <3> QED
        BY <3>1, <3>4 DEF Row
  <2> QED
      BY <1>1, <2>1, <2>2, <2>3 DEF Next
<1> QED
    BY <1>1, Invariance, BackInvariant, SightedInvariant, PTL DEF Spec, SubmittedIsSettled

=============================================================================
