---------------------------- MODULE OrdersProofs ----------------------------
(***************************************************************************)
(* Proofs about Orders.  IInv is inductive: the stores and the frames are  *)
(* well-typed, a frame points at what exists, and the permits taken are    *)
(* the requests inside.  OrderTablesProofs builds on it.                   *)
(***************************************************************************)
EXTENDS Orders, FiniteSetTheorems, TLAPS

StoreOK ==
    /\ row \in [Orders -> Row]
    /\ attempts \in [Orders -> Seq(Attempt)]
    /\ failovers \in [Orders -> SUBSET (Brokers \X Brokers)]
    /\ events \in [Orders -> Seq({"submitted", "cancelled"})]
    /\ book \in Seq(Listing)

TasksOK ==
    /\ pc \in [Tasks -> Pcs]
    /\ cur \in [Tasks -> Orders \cup {None}]
    /\ local \in [Tasks -> Frame]
    /\ FramesOK

CountersOK ==
    /\ scans \in 0..MaxScans
    /\ crashes \in 0..MaxCrashes
    /\ inflight \in 0..MaxInflight
    /\ InflightBalanced
    /\ blind \in [Orders -> SUBSET {"cancel", "recovery"}]

IInv == StoreOK /\ TasksOK /\ CountersOK

\* No order disappears from attempts: what a task remembers stays there.
AttemptsGrow ==
    \A o \in Orders : DOMAIN attempts[o] \subseteq DOMAIN attempts'[o]

\* Task t goes to p, works on c, with frame f.
Moves(t, p, c, f) ==
    /\ pc' = [pc EXCEPT ![t] = p]
    /\ cur' = [cur EXCEPT ![t] = c]
    /\ local' = [local EXCEPT ![t] = f]
-----------------------------------------------------------------------------
\* Changing one field of a task's frame (the locals of place, cancel and
\* _recover_one) leaves a frame.
LEMMA FrameUpdates ==
    ASSUME NEW f \in Frame
    PROVE  /\ \A v \in Row : [f EXCEPT !.view = v] \in Frame
           /\ \A c \in Seq(Brokers) : [f EXCEPT !.chain = c] \in Frame
           /\ \A n \in Nat : [f EXCEPT !.idx = n] \in Frame
           /\ \A n \in Nat : [f EXCEPT !.att = n] \in Frame
           /\ \A S \in SUBSET Orders : [f EXCEPT !.todo = S] \in Frame
BY DEF Frame

\* Changing one column of a loaded order row leaves an order row.
LEMMA RowUpdates ==
    ASSUME NEW r \in Row
    PROVE  /\ \A s \in Statuses : [r EXCEPT !.status = s] \in Row
           /\ \A b \in Brokers : [r EXCEPT !.broker = b] \in Row
           /\ \A n \in Nat : [r EXCEPT !.bo = n] \in Row
BY DEF Row

\* The empty frame and the row of an order not placed yet are well-typed.
LEMMA IdleFrameType == IdleFrame \in Frame /\ AbsentRow \in Row
BY DEF IdleFrame, Frame, AbsentRow, Row, Statuses

\* A commit of a loaded row over the stored one (SQLAlchemy's changed columns)
\* stores an order row.
LEMMA FlushTypes ==
    ASSUME NEW r \in Row, NEW v \in Row, NEW n \in Row
    PROVE  Flush(r, v, n) \in Row
BY DEF Flush, Row

\* Every commit of an order row leaves the orders table well-typed.
LEMMA CommitTypes ==
    ASSUME StoreOK, TasksOK, NEW t \in Tasks, cur[t] \in Orders,
           NEW n \in Row, CommitRow(t, n)
    PROVE  row' \in [Orders -> Row]
<1>1. local[t].view \in Row /\ row[cur[t]] \in Row
  BY DEF StoreOK, TasksOK, Frame
<1>2. QED  BY <1>1, FlushTypes DEF StoreOK, CommitRow

\* What the fields of every task's frame hold.
LEMMA FrameFields ==
    ASSUME TasksOK, NEW t \in Tasks
    PROVE  /\ local[t] \in Frame
           /\ local[t].view \in Row
           /\ local[t].chain \in Seq(Brokers)
           /\ local[t].idx \in Nat
           /\ local[t].att \in Nat
           /\ local[t].todo \in SUBSET Orders
BY DEF TasksOK, Frame

\* The candidate the walk of _submit_inline looks at is a broker of the chain.
LEMMA CandidateType ==
    ASSUME TasksOK, NEW t \in Tasks, InChain(t), local[t].idx >= 1
    PROVE  Candidate(t) \in Brokers
BY FrameFields DEF Candidate, InChain

\* A task that works on something works on an order.
LEMMA AtWork ==
    ASSUME TasksOK, NEW t \in Tasks, pc[t] \notin {"idle", "next"}
    PROVE  cur[t] \in Orders
BY DEF TasksOK, FramesOK, FrameOK

\* A task that moves to a good place with a good frame leaves all tasks in
\* order, because the attempts the others remember stay.
LEMMA MovesTypes ==
    ASSUME TasksOK, AttemptsGrow,
           NEW t \in Tasks, NEW p \in Pcs, NEW c \in Orders \cup {None},
           NEW f \in Frame, Moves(t, p, c, f),
           FrameOK(t)'
    PROVE  TasksOK'
<1>1. /\ pc' \in [Tasks -> Pcs]
      /\ cur' \in [Tasks -> Orders \cup {None}]
      /\ local' \in [Tasks -> Frame]
  BY DEF TasksOK, Moves
<1>2. ASSUME NEW u \in Tasks, u # t  PROVE FrameOK(u)'
  <2>1. pc'[u] = pc[u] /\ cur'[u] = cur[u] /\ local'[u] = local[u]
    BY <1>2 DEF Moves, TasksOK
  <2>2. FrameOK(u)
    BY DEF TasksOK, FramesOK
  <2>3. pc[u] \in {"send", "record", "adopt"} => cur[u] \in Orders
    BY AtWork
  <2>4. QED  BY <2>1, <2>2, <2>3 DEF FrameOK, InChain, AttemptsGrow
<1>3. QED  BY <1>1, <1>2 DEF TasksOK, FramesOK
-----------------------------------------------------------------------------
(* Every action leaves the tasks well-formed.                              *)

\* Returning from place, cancel or _recover_one leaves the tasks in order.
LEMMA ReturnMoves ==
    ASSUME TasksOK, AttemptsGrow, NEW t \in Tasks, Return(t)
    PROVE  TasksOK'
<1> DEFINE p == IF t \in Scanners THEN "next" ELSE "idle"
           f == [IdleFrame EXCEPT !.todo = local[t].todo]
<1>1. p \in Pcs
  BY DEF Pcs
<1>2. f \in Frame
  BY IdleFrameType, FrameFields, FrameUpdates
<1>3. Moves(t, p, None, f)
  BY DEF Return, Moves
<1>4. FrameOK(t)'
  <2>1. pc'[t] = p /\ cur'[t] = None
    BY <1>3 DEF Moves, TasksOK
  <2>2. QED  BY <2>1 DEF FrameOK, Submitting
<1> HIDE DEF p, f
<1>5. QED  BY <1>1, <1>2, <1>3, <1>4, MovesTypes

\* A step that leaves order_attempts alone loses no attempt.
LEMMA QuietGrow == (attempts' = attempts) => AttemptsGrow
BY DEF AttemptsGrow

\* The next candidate only advances the position in the chain.
LEMMA NextCandidateMoves ==
    ASSUME TasksOK, NEW t \in Tasks, NextCandidate(t)
    PROVE  /\ local' = [local EXCEPT ![t] = [local[t] EXCEPT !.idx = local[t].idx + 1]]
           /\ [local[t] EXCEPT !.idx = local[t].idx + 1] \in Frame
<1>1. local[t].idx + 1 \in Nat /\ local[t] \in Frame
  BY FrameFields
<1>2. QED  BY <1>1, FrameUpdates DEF NextCandidate

\* An action that leaves cur and local alone.
LEMMA GotoMoves ==
    ASSUME TasksOK, AttemptsGrow, NEW t \in Tasks, NEW p \in Pcs, Goto(t, p),
           cur' = cur, local' = local, FrameOK(t)'
    PROVE  TasksOK'
<1>1. Moves(t, p, cur[t], local[t])
  BY DEF Moves, Goto, TasksOK
<1>2. cur[t] \in Orders \cup {None} /\ local[t] \in Frame
  BY DEF TasksOK
<1>3. QED  BY <1>1, <1>2, MovesTypes

\* Attempts are appended, or an attempt is changed in place.
LEMMA AttemptsOnlyGrow ==
    ASSUME StoreOK, NEW o \in Orders
    PROVE  /\ \A a \in Attempt : 
                 attempts' = [attempts EXCEPT ![o] = Append(@, a)] => 
                    /\ AttemptsGrow
                    /\ attempts' \in [Orders -> Seq(Attempt)]
                    /\ Len(attempts[o]) + 1 \in DOMAIN attempts'[o]
           /\ \A i \in DOMAIN attempts[o], a \in Attempt :
                 attempts' = [attempts EXCEPT ![o][i] = a] => 
                    /\ AttemptsGrow
                    /\ attempts' \in [Orders -> Seq(Attempt)]
<1>1. attempts[o] \in Seq(Attempt)
  BY DEF StoreOK
<1>2. ASSUME NEW a \in Attempt, attempts' = [attempts EXCEPT ![o] = Append(@, a)]
      PROVE  /\ AttemptsGrow
             /\ attempts' \in [Orders -> Seq(Attempt)]
             /\ Len(attempts[o]) + 1 \in DOMAIN attempts'[o]
  <2>1. /\ Append(attempts[o], a) \in Seq(Attempt)
        /\ DOMAIN attempts[o] \subseteq DOMAIN Append(attempts[o], a)
        /\ Len(attempts[o]) + 1 \in DOMAIN Append(attempts[o], a)
    BY <1>1
  <2>2. QED  BY <1>2, <2>1 DEF StoreOK, AttemptsGrow
<1>3. ASSUME NEW i \in DOMAIN attempts[o], NEW a \in Attempt,
             attempts' = [attempts EXCEPT ![o][i] = a]
      PROVE  AttemptsGrow /\ attempts' \in [Orders -> Seq(Attempt)]
  <2>1. [attempts[o] EXCEPT ![i] = a] \in Seq(Attempt)
    BY <1>1
  <2>2. DOMAIN [attempts[o] EXCEPT ![i] = a] = DOMAIN attempts[o]
    OBVIOUS
  <2>3. attempts' = [attempts EXCEPT ![o] = [attempts[o] EXCEPT ![i] = a]]
    BY <1>3
  <2>4. QED  BY <2>1, <2>2, <2>3 DEF StoreOK, AttemptsGrow
<1>4. QED  BY <1>2, <1>3

\* place() starts with an order and leaves the tasks in order.
LEMMA PlaceTasks ==
    ASSUME TasksOK, NEW t \in Tasks, NEW o \in Orders, Place(t, o)
    PROVE  TasksOK'
<1>1. "admit" \in Pcs /\ o \in Orders \cup {None} /\ local[t] \in Frame
  BY FrameFields DEF Pcs
<1>2. Moves(t, "admit", o, local[t])
  BY DEF Moves, Place, Goto, TasksOK
<1>3. pc'[t] = "admit" /\ cur'[t] = o
  BY <1>2 DEF Moves, TasksOK
<1>4. FrameOK(t)'
  BY <1>3, NoneAssumption DEF FrameOK, Submitting, Place
<1>5. AttemptsGrow
  BY DEF AttemptsGrow, Place, db
<1>6. QED  BY <1>1, <1>2, <1>4, <1>5, MovesTypes

\* Admission to the engine leaves the tasks in order.
LEMMA AdmitTasks ==
    ASSUME TasksOK, NEW t \in Tasks, Admit(t)
    PROVE  TasksOK'
<1>1. pc'[t] = "insert" /\ "insert" \in Pcs /\ AttemptsGrow
  BY DEF Admit, Goto, TasksOK, Pcs, Placing, AttemptsGrow, db
<1>2. FrameOK(t)'
  BY <1>1 DEF FrameOK, Submitting, Admit, TasksOK, FramesOK
<1>3. QED  BY <1>1, <1>2, GotoMoves DEF Admit

\* A refused admission (QUEUE_FULL) leaves the tasks in order.
LEMMA QueueFullTasks ==
    ASSUME TasksOK, NEW t \in Tasks, QueueFull(t)
    PROVE  TasksOK'
<1>1. Moves(t, "idle", None, local[t])
  BY DEF Moves, QueueFull, Goto, TasksOK
<1>2. local[t] \in Frame /\ "idle" \in Pcs /\ AttemptsGrow
  BY FrameFields DEF Pcs, QueueFull, db, AttemptsGrow
<1>3. pc'[t] = "idle" /\ cur'[t] = None
  BY <1>1 DEF Moves, TasksOK
<1>4. FrameOK(t)'
  BY <1>3 DEF FrameOK, Submitting
<1>5. QED  BY <1>1, <1>2, <1>4, MovesTypes

\* Inserting the order row leaves rows and tasks in order.
LEMMA InsertTasks ==
    ASSUME TasksOK, NEW t \in Tasks, Insert(t)
    PROVE  TasksOK'
<1> DEFINE v == [AbsentRow EXCEPT !.status = "CREATED"]
           f == [local[t] EXCEPT !.view = v]
<1>1. v \in Row
  BY IdleFrameType, RowUpdates DEF Statuses
<1>2. f \in Frame /\ cur[t] \in Orders
  BY <1>1, FrameFields, FrameUpdates, AtWork DEF Insert
<1>3. Moves(t, "route", cur[t], f)
  BY DEF Moves, Insert, Goto, TasksOK
<1>4. pc'[t] = "route" /\ cur'[t] = cur[t]
  BY <1>3 DEF Moves, TasksOK
<1>5. FrameOK(t)'
  BY <1>2, <1>4, NoneAssumption DEF FrameOK, Submitting, Insert, TasksOK, FramesOK
<1>6. "route" \in Pcs /\ AttemptsGrow
  BY DEF Pcs, Placing, Submitting, AttemptsGrow, Insert
<1> HIDE DEF f
<1>7. QED  BY <1>2, <1>3, <1>5, <1>6, MovesTypes

\* A routing decision gives the task a chain and leaves the tasks in order.
LEMMA RouteTasks ==
    ASSUME TasksOK, NEW t \in Tasks, Route(t)
    PROVE  TasksOK'
<1>1. PICK c \in Chains : local' = [local EXCEPT ![t].chain = c, ![t].idx = 1]
  BY DEF Route
<1>2. c \in Seq(Brokers)
  BY DEF Chains
<1> DEFINE f == [[local[t] EXCEPT !.chain = c] EXCEPT !.idx = 1]
<1>3. f \in Frame /\ f.idx = 1 /\ cur[t] \in Orders
  BY <1>2, FrameFields, FrameUpdates, AtWork DEF Route, Frame
<1>4. Moves(t, "consume", cur[t], f)
  BY <1>1 DEF Moves, Route, Goto, TasksOK
<1>5. pc'[t] = "consume" /\ cur'[t] = cur[t] /\ local'[t] = f
  BY <1>4 DEF Moves, TasksOK
<1> HIDE DEF f
<1>6. FrameOK(t)'
  BY <1>3, <1>5, NoneAssumption DEF FrameOK, Submitting, Route, TasksOK, FramesOK
<1>7. "consume" \in Pcs /\ AttemptsGrow
  BY DEF Pcs, Placing, Submitting, AttemptsGrow, Route, db
<1>8. QED  BY <1>3, <1>4, <1>6, <1>7, MovesTypes

\* A permit of the rate limiter leads to an attempt at a broker of the chain.
LEMMA ConsumeTasks ==
    ASSUME TasksOK, NEW t \in Tasks, Consume(t)
    PROVE  TasksOK'
<1>1. pc'[t] = "attempt" /\ "attempt" \in Pcs /\ AttemptsGrow
  BY DEF Consume, Goto, TasksOK, Pcs, Placing, Submitting, AttemptsGrow, db
<1>2. FrameOK(t)'
  BY <1>1 DEF FrameOK, Submitting, Consume, TasksOK, FramesOK, InChain
<1>3. QED  BY <1>1, <1>2, GotoMoves DEF Consume

\* The next candidate of the chain, at Reroute and at Failover.
LEMMA NextCandidateTasks ==
    ASSUME TasksOK, NEW t \in Tasks, Reroute(t) \/ Failover(t)
    PROVE  TasksOK'
<1> DEFINE f == [local[t] EXCEPT !.idx = local[t].idx + 1]
<1>1. pc[t] \in {"consume", "failover"} /\ pc'[t] = "consume" /\ cur' = cur
  BY DEF Reroute, Failover, Goto, TasksOK
<1>2. local' = [local EXCEPT ![t] = f] /\ f \in Frame
  BY NextCandidateMoves DEF Reroute, Failover
<1>3. Moves(t, "consume", cur[t], f)
  BY <1>1, <1>2 DEF Moves, Reroute, Failover, Goto, TasksOK
<1>4. local[t].idx \in Nat /\ f.idx = local[t].idx + 1 /\ local'[t] = f
  BY <1>2, FrameFields DEF TasksOK, Frame
<1> HIDE DEF f
<1>5. cur[t] \in Orders
  BY <1>1, AtWork
<1>6. FrameOK(t)'
  BY <1>1, <1>4, <1>5, NoneAssumption DEF FrameOK, Submitting, TasksOK, FramesOK
<1>7. "consume" \in Pcs /\ AttemptsGrow
  BY DEF Pcs, Placing, Submitting, AttemptsGrow, Reroute, Failover
<1>8. QED  BY <1>2, <1>3, <1>5, <1>6, <1>7, MovesTypes

\* An attempt that starts is appended, and its task points at it.
LEMMA StartAttemptTasks ==
    ASSUME StoreOK, TasksOK, NEW t \in Tasks, StartAttempt(t)
    PROVE  /\ TasksOK'
           /\ row' \in [Orders -> Row]
           /\ attempts' \in [Orders -> Seq(Attempt)]
<1> DEFINE f == [[local[t] EXCEPT !.view = Attempted(t)]
                    EXCEPT !.att = Len(attempts[cur[t]]) + 1]
           a == [no |-> local[t].idx, broker |-> Candidate(t),
                 status |-> "submitting", bo |-> 0]
<1>1. cur[t] \in Orders /\ InChain(t) /\ local[t].idx >= 1
  BY AtWork DEF StartAttempt, TasksOK, FramesOK, FrameOK
<1>2. Candidate(t) \in Brokers
  BY <1>1, CandidateType
<1>3. a \in Attempt
  BY <1>2, FrameFields DEF Attempt
<1>4. Attempted(t) \in Row
  BY <1>2, FrameFields DEF Attempted, Row, Statuses
<1>5. Len(attempts[cur[t]]) + 1 \in Nat
  BY <1>1 DEF StoreOK
<1>6. f \in Frame
  BY <1>4, <1>5, FrameFields, FrameUpdates
<1>7. /\ f.idx = local[t].idx
      /\ f.chain = local[t].chain
      /\ f.att = Len(attempts[cur[t]]) + 1
  BY FrameFields DEF Frame
<1>8. Moves(t, "send", cur[t], f)
  BY DEF Moves, StartAttempt, Goto, TasksOK
<1>9. pc'[t] = "send" /\ cur'[t] = cur[t] /\ local'[t] = f
  BY <1>8 DEF Moves, TasksOK
<1> HIDE DEF f
<1>10. attempts' = [attempts EXCEPT ![cur[t]] = Append(@, a)]
  BY DEF StartAttempt
<1> HIDE DEF a
<1>11. /\ AttemptsGrow
       /\ attempts' \in [Orders -> Seq(Attempt)]
       /\ Len(attempts[cur[t]]) + 1 \in DOMAIN attempts'[cur[t]]
  BY <1>1, <1>3, <1>10, AttemptsOnlyGrow
<1>12. FrameOK(t)'
  BY <1>1, <1>7, <1>9, <1>11, NoneAssumption
  DEF FrameOK, Submitting, StartAttempt, TasksOK, FramesOK, InChain
<1>13. "send" \in Pcs
  BY DEF Pcs, Placing, Submitting
<1>14. TasksOK'
  BY <1>1, <1>6, <1>8, <1>11, <1>12, <1>13, MovesTypes
<1>15. row' \in [Orders -> Row]
  BY <1>1, <1>4, CommitTypes DEF StartAttempt
<1>16. QED  BY <1>11, <1>14, <1>15

\* The broker's acceptance leaves the book and the tasks in order.
LEMMA BrokerAcceptsTasks ==
    ASSUME StoreOK, TasksOK, NEW t \in Tasks, BrokerAccepts(t)
    PROVE  TasksOK' /\ book' \in Seq(Listing)
<1> DEFINE v == [local[t].view EXCEPT !.bo = Len(book) + 1]
           f == [local[t] EXCEPT !.view = v]
<1>1. /\ cur[t] \in Orders /\ InChain(t) /\ local[t].idx >= 1
      /\ local[t].att \in DOMAIN attempts[cur[t]]
  BY AtWork DEF BrokerAccepts, TasksOK, FramesOK, FrameOK
<1>2. Candidate(t) \in Brokers
  BY <1>1, CandidateType
<1>3. [order |-> cur[t], broker |-> Candidate(t), status |-> "accepted"] \in Listing
  BY <1>1, <1>2 DEF Listing
<1>4. book' \in Seq(Listing)
  BY <1>3 DEF StoreOK, BrokerAccepts
<1>5. Len(book) + 1 \in Nat
  BY DEF StoreOK
<1>6. v \in Row
  BY <1>5, FrameFields, RowUpdates
<1>7. f \in Frame
  BY <1>6, FrameFields, FrameUpdates
<1>8. f.idx = local[t].idx /\ f.chain = local[t].chain /\ f.att = local[t].att
  BY FrameFields DEF Frame
<1>9. Moves(t, "record", cur[t], f)
  BY DEF Moves, BrokerAccepts, Goto, TasksOK
<1>10. pc'[t] = "record" /\ cur'[t] = cur[t] /\ local'[t] = f
  BY <1>9 DEF Moves, TasksOK
<1> HIDE DEF f
<1>11. "record" \in Pcs /\ AttemptsGrow /\ attempts' = attempts
  BY DEF Pcs, Placing, Submitting, AttemptsGrow, BrokerAccepts, db
<1>12. FrameOK(t)'
  BY <1>1, <1>8, <1>10, <1>11, NoneAssumption
  DEF FrameOK, Submitting, BrokerAccepts, TasksOK, FramesOK, InChain
<1>13. QED  BY <1>1, <1>4, <1>7, <1>9, <1>11, <1>12, MovesTypes

\* The commit of an acceptance leaves rows, attempts and tasks in order.
LEMMA RecordSuccessTasks ==
    ASSUME StoreOK, TasksOK, NEW t \in Tasks, RecordSuccess(t)
    PROVE  TasksOK' /\ StoreOK'
<1> DEFINE i == local[t].att
           bo == local[t].view.bo
           a == Submitted(attempts[cur[t]][i], bo)
           r == [[row[cur[t]] EXCEPT !.status = "SUBMITTED"] EXCEPT !.bo = bo]
<1>1. cur[t] \in Orders /\ i \in DOMAIN attempts[cur[t]] /\ bo \in Nat
  BY AtWork, FrameFields DEF RecordSuccess, TasksOK, FramesOK, FrameOK, Row
<1>2. attempts[cur[t]][i] \in Attempt
  BY <1>1 DEF StoreOK
<1>3. a \in Attempt
  BY <1>1, <1>2 DEF Submitted, Attempt
<1>4. attempts' = [attempts EXCEPT ![cur[t]][i] = a]
  BY DEF RecordSuccess
<1> HIDE DEF a
<1>5. AttemptsGrow /\ attempts' \in [Orders -> Seq(Attempt)]
  BY <1>1, <1>3, <1>4, AttemptsOnlyGrow
<1>6. r \in Row
  BY <1>1, RowUpdates DEF StoreOK, Statuses
<1>7. row' = [row EXCEPT ![cur[t]] = r]
  BY DEF RecordSuccess
<1> HIDE DEF r
<1>8. row' \in [Orders -> Row]
  BY <1>6, <1>7 DEF StoreOK
<1>9. events' \in [Orders -> Seq({"submitted", "cancelled"})]
  BY <1>1 DEF RecordSuccess, Emit, StoreOK
<1>10. TasksOK'
  BY <1>5, ReturnMoves DEF RecordSuccess
<1>11. QED  BY <1>5, <1>8, <1>9, <1>10 DEF RecordSuccess, StoreOK

\* A failed attempt leaves attempts and tasks in order.
LEMMA AttemptFailsTasks ==
    ASSUME StoreOK, TasksOK, NEW t \in Tasks, AttemptFails(t)
    PROVE  TasksOK' /\ attempts' \in [Orders -> Seq(Attempt)]
<1> DEFINE i == local[t].att
           a == [attempts[cur[t]][i] EXCEPT !.status = "failed"]
<1>1. /\ cur[t] \in Orders /\ i \in DOMAIN attempts[cur[t]]
      /\ InChain(t) /\ local[t].idx >= 1
  BY AtWork DEF AttemptFails, TasksOK, FramesOK, FrameOK
<1>2. attempts[cur[t]][i] \in Attempt
  BY <1>1 DEF StoreOK
<1>3. a \in Attempt
  BY <1>2 DEF Attempt
<1>4. attempts' = [attempts EXCEPT ![cur[t]][i] = a]
  BY DEF AttemptFails
<1> HIDE DEF a
<1>5. AttemptsGrow /\ attempts' \in [Orders -> Seq(Attempt)]
  BY <1>1, <1>3, <1>4, AttemptsOnlyGrow
<1>6. PICK p \in {"failover", "reject"} : Goto(t, p)
  BY DEF AttemptFails
<1>7. pc'[t] = p /\ p \in Pcs
  BY <1>6 DEF Goto, TasksOK, Pcs, Placing, Submitting
<1>8. FrameOK(t)'
  BY <1>1, <1>7, NoneAssumption
  DEF FrameOK, Submitting, AttemptFails, TasksOK, FramesOK, InChain
<1>9. QED  BY <1>5, <1>6, <1>7, <1>8, GotoMoves DEF AttemptFails

\* place() ends without a commit, or with one that marks the order FAILED.
LEMMA GiveUpTasks ==
    ASSUME StoreOK, TasksOK, NEW t \in Tasks,
           \/ InsertConflict(t) \/ NoRoute(t) \/ Escape(t)
           \/ RejectRateLimited(t) \/ RejectOrder(t) \/ Exhaust(t)
    PROVE  TasksOK' /\ StoreOK'
<1> DEFINE failed == [local[t].view EXCEPT !.status = "FAILED"]
<1>1. Return(t) /\ AttemptsGrow
  BY DEF InsertConflict, NoRoute, Escape, RejectRateLimited, RejectOrder,
         Exhaust, AttemptsGrow, db
<1>2. TasksOK'
  BY <1>1, ReturnMoves
<1>3. cur[t] \in Orders /\ failed \in Row
  <2>1. cur[t] \in Orders
    BY AtWork, NoneAssumption
    DEF InsertConflict, NoRoute, Escape, RejectRateLimited, RejectOrder, Exhaust,
        TasksOK
  <2>2. QED  BY <2>1, FrameFields, RowUpdates DEF Statuses
<1>4. row' = row \/ CommitRow(t, failed)
  BY DEF InsertConflict, NoRoute, Escape, RejectRateLimited, RejectOrder,
         Exhaust, db
<1> HIDE DEF failed
<1>5. row' \in [Orders -> Row]
  BY <1>3, <1>4, CommitTypes DEF StoreOK
<1>6. QED
  BY <1>2, <1>5
  DEF InsertConflict, NoRoute, Escape, RejectRateLimited, RejectOrder, Exhaust,
      StoreOK, db

\* cancel() starts with the row it loaded and leaves the tasks in order.
LEMMA CancelTasks ==
    ASSUME StoreOK, TasksOK, NEW t \in Tasks, NEW o \in Orders, Cancel(t, o)
    PROVE  TasksOK'
<1> DEFINE p == IF row[o].bo = 0 THEN "cancelLocally" ELSE "cancelAtBroker"
           f == [local[t] EXCEPT !.view = row[o]]
<1>1. f \in Frame
  BY FrameFields, FrameUpdates DEF StoreOK
<1>2. Moves(t, p, o, f)
  BY DEF Moves, Cancel, Goto
<1>3. pc'[t] = p /\ cur'[t] = o /\ p \in Pcs
  BY <1>2 DEF Moves, TasksOK, Pcs
<1> HIDE DEF f
<1>4. FrameOK(t)'
  BY <1>3, NoneAssumption DEF FrameOK, Submitting, Cancel
<1> HIDE DEF p
<1>5. AttemptsGrow
  BY DEF AttemptsGrow, Cancel, db
<1>6. QED  BY <1>1, <1>2, <1>3, <1>4, <1>5, MovesTypes

\* The commit of a cancel leaves rows, events and tasks in order.
LEMMA CommitCancelTasks ==
    ASSUME StoreOK, TasksOK, NEW t \in Tasks, CancelLocally(t) \/ RecordCancel(t)
    PROVE  TasksOK' /\ StoreOK'
<1> DEFINE cancelled == [local[t].view EXCEPT !.status = "CANCELLED"]
<1>1. CommitCancel(t) /\ cur[t] \in Orders
  BY AtWork DEF CancelLocally, RecordCancel
<1>2. AttemptsGrow
  BY <1>1 DEF CommitCancel, AttemptsGrow
<1>3. TasksOK'
  BY <1>1, <1>2, ReturnMoves DEF CommitCancel
<1>4. cancelled \in Row
  BY FrameFields, RowUpdates DEF Statuses
<1>5. CommitRow(t, cancelled)
  BY <1>1 DEF CommitCancel
<1> HIDE DEF cancelled
<1>6. row' \in [Orders -> Row]
  BY <1>1, <1>4, <1>5, CommitTypes
<1>7. events' \in [Orders -> Seq({"submitted", "cancelled"})]
  BY <1>1 DEF CommitCancel, Emit, StoreOK
<1>8. QED  BY <1>1, <1>3, <1>6, <1>7 DEF CommitCancel, StoreOK

\* A cancelled broker order is still a line of the broker's book.
LEMMA ListingKilled ==
    ASSUME NEW x \in Listing
    PROVE  [x EXCEPT !.status = "cancelled"] \in Listing
BY DEF Listing

\* Cancelling at the broker leaves the book and the tasks in order.
LEMMA CancelAtBrokerTasks ==
    ASSUME StoreOK, TasksOK, NEW t \in Tasks, CancelAtBroker(t)
    PROVE  TasksOK' /\ book' \in Seq(Listing)
<1>1. pc'[t] = "recordCancel" /\ "recordCancel" \in Pcs /\ AttemptsGrow
  BY DEF CancelAtBroker, Goto, TasksOK, Pcs, AttemptsGrow, db
<1>2. FrameOK(t)'
  BY <1>1 DEF FrameOK, Submitting, CancelAtBroker, TasksOK, FramesOK
<1>3. TasksOK'
  BY <1>1, <1>2, GotoMoves DEF CancelAtBroker
<1> DEFINE bo == local[t].view.bo
           killed == [book[bo] EXCEPT !.status = "cancelled"]
<1>4. book \in Seq(Listing)
  BY DEF StoreOK
<1>5. CASE bo \in DOMAIN book
  <2>1. book[bo] \in Listing
    BY <1>4, <1>5
  <2>2. killed \in Listing
    BY <2>1, ListingKilled
  <2>3. book' = [book EXCEPT ![bo] = killed]
    BY DEF CancelAtBroker, BrokerCancel
  <2> HIDE DEF killed, bo
  <2>4. book' \in Seq(Listing)
    BY <1>4, <1>5, <2>2, <2>3
  <2>5. QED  BY <1>3, <2>4
<1>6. CASE bo \notin DOMAIN book
  <2>1. book' = book
    BY <1>4, <1>6 DEF CancelAtBroker, BrokerCancel
  <2>2. QED  BY <1>3, <1>4, <2>1
<1>7. QED  BY <1>5, <1>6

\* A scan remembers orders only and leaves the tasks in order.
LEMMA ScanTasks ==
    ASSUME TasksOK, NEW t \in Tasks, Scan(t)
    PROVE  TasksOK'
<1> DEFINE S == {o \in Orders : row[o].status \in Stuck}
           f == [local[t] EXCEPT !.todo = S]
<1>1. S \in SUBSET Orders
  OBVIOUS
<1>2. f \in Frame
  BY <1>1, FrameFields, FrameUpdates
<1>3. cur[t] = None /\ t \in Scanners
  BY DEF Scan, TasksOK, FramesOK, FrameOK
<1>4. Moves(t, "next", None, f)
  BY <1>3 DEF Moves, Scan, Goto, TasksOK
<1>5. pc'[t] = "next" /\ cur'[t] = None
  BY <1>4 DEF Moves, TasksOK
<1> HIDE DEF f
<1>6. FrameOK(t)'
  BY <1>3, <1>5 DEF FrameOK, Submitting
<1>7. "next" \in Pcs /\ AttemptsGrow
  BY DEF Pcs, AttemptsGrow, Scan, db
<1>8. QED  BY <1>2, <1>4, <1>6, <1>7, MovesTypes

\* _recover_one starts with the row it refreshed.
LEMMA RecoverTasks ==
    ASSUME StoreOK, TasksOK, NEW t \in Tasks, NEW o \in Orders, Recover(t, o)
    PROVE  TasksOK'
<1> DEFINE g == [local[t] EXCEPT !.todo = local[t].todo \ {o}]
           f == [g EXCEPT !.view = row[o]]
<1>1. g \in Frame
  BY FrameFields, FrameUpdates
<1>2. f \in Frame
  BY <1>1, FrameUpdates DEF StoreOK
<1>3. t \in Scanners /\ AttemptsGrow
  BY DEF Recover, TasksOK, FramesOK, FrameOK, AttemptsGrow, db
<1>4. Moves(t, "lookup", o, f)
  BY DEF Moves, Recover, Goto
<1>5. pc'[t] = "lookup" /\ cur'[t] = o
  BY <1>4 DEF Moves, TasksOK
<1> HIDE DEF f, g
<1>6. FrameOK(t)'
  BY <1>3, <1>5, NoneAssumption DEF FrameOK, Submitting
<1>7. "lookup" \in Pcs
  BY DEF Pcs
<1>8. QED  BY <1>2, <1>3, <1>4, <1>6, <1>7, MovesTypes

\* A scan that skips an order goes to the next one.
LEMMA SkipTasks ==
    ASSUME TasksOK, NEW t \in Tasks, NEW o \in Orders, Skip(t, o)
    PROVE  TasksOK'
<1> DEFINE g == [local[t] EXCEPT !.todo = local[t].todo \ {o}]
<1>1. g \in Frame
  BY FrameFields, FrameUpdates
<1>2. t \in Scanners /\ cur[t] = None /\ AttemptsGrow
  BY DEF Skip, TasksOK, FramesOK, FrameOK, AttemptsGrow, db
<1>3. Moves(t, "next", None, g)
  BY <1>2 DEF Moves, Skip, TasksOK
<1>4. pc'[t] = "next" /\ cur'[t] = None
  BY <1>3 DEF Moves, TasksOK
<1> HIDE DEF g
<1>5. FrameOK(t)'
  BY <1>2, <1>4 DEF FrameOK, Submitting
<1>6. "next" \in Pcs
  BY DEF Pcs
<1>7. QED  BY <1>1, <1>2, <1>3, <1>5, <1>6, MovesTypes

\* The attempt that a recovery adopts is one of the order's attempts.
LEMMA LookupTasks ==
    ASSUME StoreOK, TasksOK, NEW t \in Tasks, LookupAttempts(t)
    PROVE  TasksOK'
<1>1. /\ cur[t] \in Orders /\ cur' = cur /\ t \in Scanners
      /\ attempts' = attempts /\ AttemptsGrow
  BY AtWork DEF LookupAttempts, TasksOK, FramesOK, FrameOK, AttemptsGrow, db
<1>2. CASE Goto(t, "route") /\ UNCHANGED local
  <2>1. pc'[t] = "route" /\ "route" \in Pcs
    BY <1>2 DEF Goto, TasksOK, Pcs, Placing, Submitting
  <2>2. FrameOK(t)'
    BY <1>1, <2>1, NoneAssumption DEF FrameOK, Submitting
  <2>3. QED  BY <1>1, <1>2, <2>1, <2>2, GotoMoves
<1>3. ASSUME NEW i \in Adoptable(cur[t]), Goto(t, "adopt"),
             local' = [local EXCEPT ![t].att = i]
      PROVE  TasksOK'
  <2> DEFINE f == [local[t] EXCEPT !.att = i]
  <2>1. i \in DOMAIN attempts[cur[t]] /\ i \in Nat
    BY <1>1 DEF Adoptable, StoreOK
  <2>2. f \in Frame /\ f.att = i
    BY <2>1, FrameFields, FrameUpdates DEF Frame
  <2>3. Moves(t, "adopt", cur[t], f)
    BY <1>1, <1>3 DEF Moves, Goto, TasksOK
  <2>4. pc'[t] = "adopt" /\ cur'[t] = cur[t] /\ local'[t] = f
    BY <2>3 DEF Moves, TasksOK
  <2> HIDE DEF f
  <2>5. FrameOK(t)'
    BY <1>1, <2>1, <2>2, <2>4, NoneAssumption DEF FrameOK, Submitting
  <2>6. "adopt" \in Pcs
    BY DEF Pcs
  <2>7. QED  BY <1>1, <2>2, <2>3, <2>5, <2>6, MovesTypes
<1>4. QED  BY <1>2, <1>3 DEF LookupAttempts

\* Adopting an attempt leaves rows and tasks in order.
LEMMA AdoptTasks ==
    ASSUME StoreOK, TasksOK, NEW t \in Tasks, Adopt(t)
    PROVE  TasksOK' /\ row' \in [Orders -> Row]
<1> DEFINE a == attempts[cur[t]][local[t].att]
           n == [status |-> "SUBMITTED", broker |-> a.broker, bo |-> a.bo]
<1>1. cur[t] \in Orders /\ local[t].att \in DOMAIN attempts[cur[t]]
  BY AtWork DEF Adopt, TasksOK, FramesOK, FrameOK
<1>2. a \in Attempt
  BY <1>1 DEF StoreOK
<1>3. n \in Row
  BY <1>2 DEF Attempt, Row, Statuses
<1>4. CommitRow(t, n)
  BY DEF Adopt
<1> HIDE DEF n
<1>5. row' \in [Orders -> Row]
  BY <1>1, <1>3, <1>4, CommitTypes
<1>6. AttemptsGrow
  BY DEF Adopt, AttemptsGrow
<1>7. QED  BY <1>5, <1>6, ReturnMoves DEF Adopt

\* The end of run() leaves the tasks in order.
LEMMA EndScanTasks ==
    ASSUME TasksOK, NEW t \in Tasks, EndScan(t)
    PROVE  TasksOK'
<1>1. pc'[t] = "idle" /\ "idle" \in Pcs /\ AttemptsGrow
  BY DEF EndScan, Goto, TasksOK, Pcs, AttemptsGrow, db
<1>2. FrameOK(t)'
  BY <1>1 DEF FrameOK, Submitting, EndScan, TasksOK, FramesOK
<1>3. QED  BY <1>1, <1>2, GotoMoves DEF EndScan

\* A crash leaves every task idle and the stores as they are.
LEMMA CrashTasks ==
    ASSUME Crash
    PROVE  TasksOK'
<1>1. /\ pc' \in [Tasks -> Pcs]
      /\ cur' \in [Tasks -> Orders \cup {None}]
      /\ local' \in [Tasks -> Frame]
  BY IdleFrameType DEF Crash, Pcs
<1>2. \A t \in Tasks : FrameOK(t)'
  BY DEF Crash, FrameOK, Submitting
<1>3. QED  BY <1>1, <1>2 DEF TasksOK, FramesOK
-----------------------------------------------------------------------------
(* The permits: inflight counts the placing requests inside the engine.    *)

\* The placing requests inside the engine can be counted.
LEMMA InsideFinite == IsFiniteSet(Inside) /\ Cardinality(Inside) \in Nat
<1>1. Inside \subseteq Tasks
  BY DEF Inside, Tasks
<1>2. QED  BY <1>1, TaskAssumption, FS_Subset, FS_CardinalityType

\* A task that stays inside, or stays outside, does not change the set.
LEMMA InsideSame ==
    ASSUME TasksOK, NEW t \in Tasks, NEW p, Goto(t, p),
           (t \in Placers) => (pc[t] \in Placing <=> p \in Placing)
    PROVE  Inside' = Inside
BY DEF Inside, Goto, TasksOK

\* A request that leaves the engine gives its permit back, others none.
LEMMA ReturnCounts ==
    ASSUME TasksOK, inflight \in 0..MaxInflight, InflightBalanced,
           NEW t \in Tasks, Return(t), t \in Placers => t \in Inside
    PROVE  inflight' \in 0..MaxInflight /\ InflightBalanced'
<1>1. CASE t \in Placers
  <2>1. Inside' = Inside \ {t} /\ t \in Inside
    BY <1>1, TaskAssumption DEF Inside, Return, TasksOK, Placing, Submitting
  <2>2. Cardinality(Inside') = Cardinality(Inside) - 1 /\ IsFiniteSet(Inside)
    BY <2>1, InsideFinite, FS_RemoveElement
  <2>3. inflight' = inflight - 1
    BY <1>1 DEF Return, Released
  <2>4. Cardinality(Inside') \in Nat
    BY <2>1, InsideFinite, FS_RemoveElement, FS_CardinalityType
  <2>5. QED
    BY <2>2, <2>3, <2>4, InsideFinite, BoundAssumption DEF InflightBalanced
<1>2. CASE t \notin Placers
  <2>1. Inside' = Inside
    BY <1>2 DEF Inside, Return, TasksOK
  <2>2. QED  BY <1>2, <2>1 DEF Return, Released, InflightBalanced
<1>3. QED  BY <1>1, <1>2

\* A request that enters the engine takes one permit, within the limit.
LEMMA AdmitCounts ==
    ASSUME TasksOK, inflight \in 0..MaxInflight, InflightBalanced,
           NEW t \in Tasks, Admit(t)
    PROVE  inflight' \in 0..MaxInflight /\ InflightBalanced'
<1>1. Inside' = Inside \cup {t} /\ t \notin Inside
  BY DEF Inside, Admit, Goto, TasksOK, FramesOK, FrameOK, Placing, Submitting
<1>2. Cardinality(Inside') = Cardinality(Inside) + 1
  BY <1>1, InsideFinite, FS_AddElement
<1>3. QED
  BY <1>2, BoundAssumption, InsideFinite DEF Admit, InflightBalanced

\* Only the start of a cancel or of a recovery can be blind.
LEMMA BlindStep ==
    ASSUME CountersOK, NEW t \in Tasks, Step(t) \/ Request(t)
    PROVE  /\ blind' \in [Orders -> SUBSET {"cancel", "recovery"}]
           /\ blind' = blind \/ \E o \in Orders : Cancel(t, o) \/ Recover(t, o)
<1>1. ASSUME NEW o \in Orders, Cancel(t, o) \/ Recover(t, o)
      PROVE  blind' \in [Orders -> SUBSET {"cancel", "recovery"}]
  BY <1>1 DEF Cancel, Recover, BlindCancel, BlindRecovery, CountersOK
<1>2. blind' = blind \/ \E o \in Orders : Cancel(t, o) \/ Recover(t, o)
  BY DEF Step, Proceed, Request, Admit, QueueFull, Insert, InsertConflict, Route, NoRoute,
     Consume, RejectRateLimited, Reroute, Escape, StartAttempt, BrokerAccepts,
     RecordSuccess, AttemptFails, RejectOrder, Failover, Exhaust, CancelLocally,
     CancelAtBroker, RecordCancel, CommitCancel, Skip, LookupAttempts, Adopt,
     EndScan, Scan, Place
<1>3. QED  BY <1>1, <1>2 DEF CountersOK

\* Every step of a task keeps _inflight_count equal to the number of placing
\* requests inside.
LEMMA CountStep ==
    ASSUME TasksOK, CountersOK, NEW t \in Tasks, Step(t) \/ Request(t)
    PROVE  CountersOK'
<1> DEFINE Counted == inflight' \in 0..MaxInflight /\ InflightBalanced'
<1>1. FrameOK(t) /\ pc[t] \in Pcs
  BY DEF TasksOK, FramesOK
<1>2. ASSUME Inside' = Inside, inflight' = inflight
      PROVE  Counted
  BY <1>2 DEF CountersOK, InflightBalanced
<1> SUFFICES scans' \in 0..MaxScans /\ crashes' \in 0..MaxCrashes /\ Counted
  BY BlindStep DEF CountersOK
<1>3. CASE Admit(t)
  BY <1>3, AdmitCounts DEF CountersOK, Admit
<1>4. ASSUME Return(t), cur[t] # None, pc[t] # "admit"
      PROVE  Counted
  <2>1. t \in Placers => t \in Inside
    BY <1>1, <1>4, TaskAssumption DEF Inside, FrameOK, Pcs, Placing
  <2>2. QED  BY <1>4, <2>1, ReturnCounts DEF CountersOK
<1>5. CASE \/ InsertConflict(t) \/ NoRoute(t) \/ RejectRateLimited(t) \/ Escape(t)
           \/ RecordSuccess(t) \/ RejectOrder(t) \/ Exhaust(t)
           \/ CancelLocally(t) \/ RecordCancel(t) \/ Adopt(t)
  <2>1. Return(t) /\ scans' = scans /\ crashes' = crashes
    BY <1>5 DEF InsertConflict, NoRoute, RejectRateLimited, Escape,
                RecordSuccess, RejectOrder, Exhaust, CancelLocally,
                RecordCancel, CommitCancel, Adopt
  <2>2. cur[t] # None /\ pc[t] # "admit"
    BY <1>1, <1>5 DEF InsertConflict, NoRoute, RejectRateLimited, Escape,
                RecordSuccess, RejectOrder, Exhaust, CancelLocally,
                RecordCancel, Adopt, FrameOK
  <2>3. QED  BY <1>4, <2>1, <2>2 DEF CountersOK
<1>6. CASE \/ QueueFull(t) \/ Insert(t) \/ Route(t) \/ Consume(t)
           \/ StartAttempt(t) \/ BrokerAccepts(t) \/ AttemptFails(t)
           \/ Failover(t) \/ CancelAtBroker(t) \/ EndScan(t)
  <2>1. inflight' = inflight /\ scans' = scans /\ crashes' = crashes
    BY <1>6 DEF QueueFull, Insert, Route, Consume, StartAttempt,
                BrokerAccepts, AttemptFails, Failover, CancelAtBroker, EndScan
  <2>2. PICK p : Goto(t, p) /\ (t \in Placers => (pc[t] \in Placing <=> p \in Placing))
    <3>1. CASE QueueFull(t)
      BY <3>1 DEF QueueFull, Placing, Submitting
    <3>2. CASE Insert(t) \/ Route(t) \/ Consume(t) \/ StartAttempt(t)
      BY <3>2 DEF Insert, Route, Consume, StartAttempt, Placing, Submitting
    <3>3. CASE BrokerAccepts(t) \/ AttemptFails(t) \/ Failover(t)
      BY <3>3 DEF BrokerAccepts, AttemptFails, Failover, Placing, Submitting
    <3>4. CASE CancelAtBroker(t) \/ EndScan(t)
      BY <3>4, <1>1, TaskAssumption
      DEF CancelAtBroker, EndScan, FrameOK
    <3>5. QED  BY <1>6, <3>1, <3>2, <3>3, <3>4
  <2>3. QED  BY <1>2, <2>1, <2>2, InsideSame DEF CountersOK
<1>7. CASE Reroute(t)
  BY <1>2, <1>7 DEF Reroute, Inside, CountersOK
<1>8. CASE \E o \in Orders : Place(t, o) \/ Cancel(t, o)
  <2>1. PICK p : Goto(t, p) /\ pc[t] \notin Placing /\ (t \in Placers => p \notin Placing)
    BY <1>8, TaskAssumption DEF Place, Cancel, Placing, Submitting
  <2>2. QED  BY <1>2, <1>8, <2>1, InsideSame DEF Place, Cancel, CountersOK
<1>9. CASE Scan(t)
  <2>1. Goto(t, "next") /\ t \notin Placers
    BY <1>9, TaskAssumption DEF Scan
  <2>2. scans' \in 0..MaxScans
    BY <1>9, BoundAssumption DEF Scan, CountersOK
  <2>3. QED  BY <1>2, <1>9, <2>1, <2>2, InsideSame DEF Scan, CountersOK
<1>10. CASE LookupAttempts(t) \/ \E o \in Orders : Recover(t, o) \/ Skip(t, o)
  <2>1. t \notin Placers /\ (\A u \in Tasks \ {t} : pc'[u] = pc[u])
    BY <1>10, <1>1, TaskAssumption
    DEF LookupAttempts, Recover, Skip, FrameOK, Goto, TasksOK
  <2>2. Inside' = Inside
    BY <2>1 DEF Inside, Tasks
  <2>3. QED  BY <1>2, <1>10, <2>2 DEF LookupAttempts, Recover, Skip, CountersOK
<1>11. QED
  BY <1>3, <1>5, <1>6, <1>7, <1>8, <1>9, <1>10 DEF Step, Proceed, Request
-----------------------------------------------------------------------------
\* Every step of a task leaves the stores and the tasks in order.
LEMMA TaskStep ==
    ASSUME StoreOK, TasksOK, NEW t \in Tasks, Step(t) \/ Request(t)
    PROVE  StoreOK' /\ TasksOK'
<1>1. CASE \/ InsertConflict(t) \/ NoRoute(t) \/ Escape(t)
           \/ RejectRateLimited(t) \/ RejectOrder(t) \/ Exhaust(t)
  BY <1>1, GiveUpTasks
<1>2. CASE CancelLocally(t) \/ RecordCancel(t)
  BY <1>2, CommitCancelTasks
<1>3. CASE RecordSuccess(t)
  BY <1>3, RecordSuccessTasks
<1>4. CASE StartAttempt(t)
  BY <1>4, StartAttemptTasks DEF StartAttempt, StoreOK
<1>5. CASE AttemptFails(t)
  BY <1>5, AttemptFailsTasks DEF AttemptFails, StoreOK
<1>6. CASE BrokerAccepts(t)
  BY <1>6, BrokerAcceptsTasks DEF BrokerAccepts, StoreOK, db
<1>7. CASE CancelAtBroker(t)
  BY <1>7, CancelAtBrokerTasks DEF CancelAtBroker, StoreOK, db
<1>8. CASE Adopt(t)
  BY <1>8, AdoptTasks DEF Adopt, StoreOK
<1>9. CASE Insert(t)
  <2>1. [AbsentRow EXCEPT !.status = "CREATED"] \in Row /\ cur[t] \in Orders
    BY <1>9, IdleFrameType, RowUpdates, AtWork DEF Insert, Statuses
  <2>2. QED  BY <1>9, <2>1, InsertTasks DEF Insert, StoreOK
<1>10. CASE Reroute(t) \/ Failover(t)
  <2>1. cur[t] \in Orders /\ InChain(t) /\ local[t].idx >= 1
    BY <1>10, AtWork DEF Reroute, Failover, TasksOK, FramesOK, FrameOK
  <2>2. Candidate(t) \in Brokers
    BY <2>1, CandidateType
  <2>3. local[t].idx < Len(local[t].chain) => local[t].chain[local[t].idx + 1] \in Brokers
    BY <2>1, FrameFields
  <2>4. failovers' \in [Orders -> SUBSET (Brokers \X Brokers)]
    BY <1>10, <2>1, <2>2, <2>3
    DEF Reroute, Failover, NextCandidate, RecordFailover, StoreOK
  <2>5. QED
    BY <1>10, <2>4, NextCandidateTasks DEF Reroute, Failover, StoreOK
<1>11. CASE \/ Admit(t) \/ QueueFull(t) \/ Route(t) \/ Consume(t)
            \/ LookupAttempts(t) \/ EndScan(t) \/ Scan(t)
  <2>1. UNCHANGED db /\ UNCHANGED book
    BY <1>11 DEF Admit, QueueFull, Route, Consume, LookupAttempts, EndScan, Scan
  <2>2. TasksOK'
    BY <1>11, AdmitTasks, QueueFullTasks, RouteTasks, ConsumeTasks,
       LookupTasks, EndScanTasks, ScanTasks
  <2>3. QED  BY <2>1, <2>2 DEF StoreOK, db
<1>12. CASE \E o \in Orders :
              Place(t, o) \/ Cancel(t, o) \/ Recover(t, o) \/ Skip(t, o)
  <2>1. UNCHANGED db /\ UNCHANGED book
    BY <1>12 DEF Place, Cancel, Recover, Skip
  <2>2. TasksOK'
    BY <1>12, PlaceTasks, CancelTasks, RecoverTasks, SkipTasks
  <2>3. QED  BY <2>1, <2>2 DEF StoreOK, db
<1>13. QED
  BY <1>1, <1>2, <1>3, <1>4, <1>5, <1>6, <1>7, <1>8, <1>9, <1>10, <1>11, <1>12
  DEF Step, Proceed, Request

\* The engine starts in the inductive invariant.
LEMMA InitIInv == Init => IInv
<1> SUFFICES ASSUME Init PROVE IInv
  OBVIOUS
<1>1. StoreOK
  BY IdleFrameType DEF Init, StoreOK
<1>2. TasksOK
  BY IdleFrameType DEF Init, TasksOK, FramesOK, FrameOK, Pcs, Submitting
<1>3. Inside = {}
  BY DEF Init, Inside, Tasks, Placing, Submitting
<1>4. CountersOK
  BY <1>3, BoundAssumption, FS_EmptySet DEF Init, CountersOK, InflightBalanced
<1>5. QED  BY <1>1, <1>2, <1>4 DEF IInv

\* Every step keeps the inductive invariant.
LEMMA NextIInv == IInv /\ [Next]_vars => IInv'
<1> SUFFICES ASSUME IInv, [Next]_vars PROVE IInv'
  OBVIOUS
<1> USE DEF IInv
<1>1. CASE Crash
  <2>1. StoreOK' /\ TasksOK'
    BY <1>1, CrashTasks DEF Crash, StoreOK, db
  <2>2. Inside' = {}
    BY <1>1 DEF Crash, Inside, Tasks, Placing, Submitting
  <2>3. CountersOK'
    BY <1>1, <2>2, BoundAssumption, FS_EmptySet
    DEF Crash, CountersOK, InflightBalanced
  <2>4. QED  BY <2>1, <2>3
<1>2. CASE \E t \in Tasks : Request(t) \/ Step(t)
  BY <1>2, TaskStep, CountStep
<1>3. CASE UNCHANGED vars
  BY <1>3 DEF vars, db, StoreOK, TasksOK, FramesOK, FrameOK, InChain, CountersOK,
              InflightBalanced, Inside
<1>4. QED  BY <1>1, <1>2, <1>3 DEF Next

\* The inductive invariant holds throughout: stores and frames are well-typed
\* and the permits are balanced, in every interleaving of placing, cancelling,
\* recovery and crashes (orders/service.py, replay/service.py).
THEOREM Invariance == Spec => []IInv
BY InitIInv, NextIInv, PTL DEF Spec

\* Every reachable state is well-typed: rows, attempts, the broker's book and
\* the frames of all tasks, through every commit, retry, cancel and crash.
THEOREM TypeCorrect == Spec => []TypeOK
<1>1. IInv => TypeOK
  BY DEF IInv, StoreOK, TasksOK, CountersOK, TypeOK
<1>2. QED  BY <1>1, Invariance, PTL

\* For any number of tasks and any limit, place() takes one permit per request
\* in the engine and gives each back exactly once (orders/service.py:162-221).
THEOREM PermitsBalanced == Spec => []InflightBalanced
<1>1. IInv => InflightBalanced
  BY DEF IInv, CountersOK
<1>2. QED  BY <1>1, Invariance, PTL
-----------------------------------------------------------------------------
\* A row that exists never goes away.
RowsStay == \A o \in Orders : ~IsNew(o) => ~IsNew(o)'

\* A commit of an order row never makes an order absent again.
LEMMA CommitStays ==
    ASSUME StoreOK, TasksOK, NEW t \in Tasks, cur[t] \in Orders, NEW n,
           n.status # "ABSENT", CommitRow(t, n)
    PROVE  RowsStay
<1>1. Flush(row[cur[t]], local[t].view, n).status \in {n.status, row[cur[t]].status}
  BY DEF Flush
<1>2. QED  BY <1>1 DEF CommitRow, RowsStay, IsNew, StoreOK

\* Once inserted, an order row stays: nothing deletes orders.
LEMMA StepStays ==
    ASSUME StoreOK, TasksOK, NEW t \in Tasks, Step(t) \/ Request(t)
    PROVE  RowsStay
<1>1. CASE row' = row
  BY <1>1 DEF RowsStay, IsNew
<1>2. CASE RejectRateLimited(t) \/ RejectOrder(t) \/ Exhaust(t)
  <2> DEFINE n == [local[t].view EXCEPT !.status = "FAILED"]
  <2>1. n.status # "ABSENT" /\ cur[t] \in Orders
    BY <1>2, FrameFields, AtWork DEF Row, RejectRateLimited, RejectOrder, Exhaust
  <2>2. CommitRow(t, n)
    BY <1>2 DEF RejectRateLimited, RejectOrder, Exhaust
  <2> HIDE DEF n
  <2>3. QED  BY <2>1, <2>2, CommitStays
<1>3. CASE CancelLocally(t) \/ RecordCancel(t)
  <2> DEFINE n == [local[t].view EXCEPT !.status = "CANCELLED"]
  <2>1. n.status # "ABSENT" /\ cur[t] \in Orders
    BY <1>3, FrameFields, AtWork DEF Row, CancelLocally, RecordCancel
  <2>2. CommitRow(t, n)
    BY <1>3 DEF CancelLocally, RecordCancel, CommitCancel
  <2> HIDE DEF n
  <2>3. QED  BY <2>1, <2>2, CommitStays
<1>4. CASE StartAttempt(t)
  <2>1. Attempted(t).status # "ABSENT" /\ cur[t] \in Orders
    BY <1>4, FrameFields, AtWork DEF Row, StartAttempt, Attempted
  <2>2. QED  BY <1>4, <2>1, CommitStays DEF StartAttempt
<1>5. CASE Adopt(t)
  <2> DEFINE n == [status |-> "SUBMITTED",
                   broker |-> attempts[cur[t]][local[t].att].broker,
                   bo |-> attempts[cur[t]][local[t].att].bo]
  <2>1. n.status # "ABSENT" /\ cur[t] \in Orders
    BY <1>5, AtWork DEF Adopt
  <2>2. CommitRow(t, n)
    BY <1>5 DEF Adopt
  <2> HIDE DEF n
  <2>3. QED  BY <2>1, <2>2, CommitStays
<1>6. CASE RecordSuccess(t)
  <2>1. cur[t] \in Orders /\ row[cur[t]] \in Row
    BY <1>6, AtWork DEF RecordSuccess, StoreOK
  <2>2. row'[cur[t]].status = "SUBMITTED"
    BY <1>6, <2>1 DEF RecordSuccess, StoreOK, Row
  <2>3. \A o \in Orders : o # cur[t] => row'[o] = row[o]
    BY <1>6 DEF RecordSuccess, StoreOK
  <2>4. QED  BY <2>2, <2>3 DEF RowsStay, IsNew
<1>7. CASE Insert(t)
  <2>1. \A o \in Orders : o # cur[t] => row'[o] = row[o]
    BY <1>7 DEF Insert, StoreOK
  <2>2. QED  BY <1>7, <2>1 DEF Insert, RowsStay, IsNew
<1>8. QED
  BY <1>1, <1>2, <1>3, <1>4, <1>5, <1>6, <1>7
  DEF Step, Proceed, Request, Admit, QueueFull, InsertConflict, Route, NoRoute, Consume,
      Reroute, Escape, BrokerAccepts, AttemptFails, Failover, CancelAtBroker,
      Recover, Skip, LookupAttempts, EndScan, Place, Cancel, Scan, db

=============================================================================
