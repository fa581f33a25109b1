---------------------------- MODULE GatewayProofs ----------------------------
(***************************************************************************)
(* What Gateway promises, for any number of requests, any limit and any    *)
(* number of faults.                                                       *)
(***************************************************************************)
EXTENDS Gateway, FiniteSetTheorems, TLAPS

\* A request between the limiter's two calls to Redis has a place that is not
\* counted yet.
Adders == {t \in Tasks : task[t].at = "add"}

LimitInv ==
    IF limits = "memory" THEN window <= Limit /\ Adders = {}
    ELSE window + Cardinality(Adders) < Limit + Cardinality(Tasks)

\* Who refreshes has the lock, or had it.
LockInv == \A t \in Inside : lock = t \/ t \in late

\* Tokens about to be saved are newer than the row's, late requests apart.
TokenInv ==
    /\ session.token <= issued
    /\ \A t \in Tasks :
          /\ task[t].token <= issued
          /\ task[t].at = "save" /\ t \notin late => byLate \/ task[t].token > session.token

Inv == TypeOK /\ LimitInv /\ LockInv /\ TokenInv
Places == {"idle", "count", "add", "lock", "read", "login", "save", "release"}
Requests ==
    [at : Places, force : BOOLEAN, token : 0..MaxTokens,
     read : [status : {"none", "valid", "expired"}, token : 0..MaxTokens]]

-----------------------------------------------------------------------------
\* A request stays one of the records that TypeOK lists when a field of it is set.
LEMMA FieldTyped ==
    ASSUME NEW tasks \in [Tasks -> Requests], NEW t \in Tasks
    PROVE  /\ \A at \in Places : [tasks EXCEPT ![t].at = at] \in [Tasks -> Requests]
           /\ \A n \in 0..MaxTokens : [tasks EXCEPT ![t].token = n] \in [Tasks -> Requests]
           /\ \A force \in BOOLEAN : [tasks EXCEPT ![t].force = force] \in [Tasks -> Requests]
<1>1. tasks[t] \in Requests
      OBVIOUS
<1>2. ASSUME NEW r \in Requests
      PROVE  [tasks EXCEPT ![t] = r] \in [Tasks -> Requests]
      BY <1>2
<1>3. ASSUME NEW at \in Places
      PROVE  [tasks EXCEPT ![t].at = at] \in [Tasks -> Requests]
  <2>1. [tasks[t] EXCEPT !.at = at] \in Requests
        BY <1>1 DEF Requests
  <2> QED
      BY <1>2, <2>1
<1>4. ASSUME NEW n \in 0..MaxTokens
      PROVE  [tasks EXCEPT ![t].token = n] \in [Tasks -> Requests]
  <2>1. [tasks[t] EXCEPT !.token = n] \in Requests
        BY <1>1 DEF Requests
  <2> QED
      BY <1>2, <2>1
<1>5. ASSUME NEW force \in BOOLEAN
      PROVE  [tasks EXCEPT ![t].force = force] \in [Tasks -> Requests]
  <2>1. [tasks[t] EXCEPT !.force = force] \in Requests
        BY <1>1 DEF Requests
  <2> QED
      BY <1>2, <2>1
<1> QED
    BY <1>3, <1>4, <1>5

\* A request that goes on or ends is one of the records that TypeOK lists.
LEMMA MovesTyped ==
    ASSUME TypeOK, NEW t \in Tasks
    PROVE  /\ \A at \in Places : Go(t, at) => task' \in [Tasks -> Requests]
           /\ End(t) => task' \in [Tasks -> Requests]
<1>1. \A at \in Places : Go(t, at) => task' \in [Tasks -> Requests]
      BY DEF TypeOK, Go, Places, Requests
<1>2. End(t) => task' \in [Tasks -> Requests]
      BY GatewayAssumption DEF TypeOK, End, Idle, NoSession, Places, Requests
<1> QED
    BY <1>1, <1>2

\* Every action leaves every variable in its type.
LEMMA TypeStep ==
    ASSUME TypeOK, [Next]_vars
    PROVE  TypeOK'
<1> USE GatewayAssumption DEF TypeOK, Backends
<1>1. CASE Slide
      BY <1>1 DEF Slide
<1>2. CASE LockExpires
      BY <1>2 DEF LockExpires, LateAfter, Inside
<1>3. CASE SessionExpires
      BY <1>3 DEF SessionExpires
<1>4. CASE Restart
      BY <1>4 DEF Restart, Idle, NoSession
<1>5. ASSUME NEW t \in Tasks, Order(t)
      PROVE  TypeOK'
      <2>1. task' \in [Tasks -> Requests]
           BY <1>5, MovesTyped DEF Order, Places
      <2> QED
           BY <1>5, <2>1 DEF Order, Requests, Places
<1>6. ASSUME NEW t \in Tasks, Count(t)
      PROVE  TypeOK'
      <2>1. task' \in [Tasks -> Requests]
           BY <1>6, MovesTyped DEF Count, Places
      <2>2. window' \in Nat
           BY <1>6 DEF Count
      <2> QED
           BY <1>6, <2>1, <2>2 DEF Count, Requests, Places
<1>7. ASSUME NEW t \in Tasks, CountInMemory(t)
      PROVE  TypeOK'
      <2>1. task' \in [Tasks -> Requests]
           BY <1>7, MovesTyped DEF CountInMemory, Places
      <2>2. window' \in Nat
           BY <1>7 DEF CountInMemory
      <2> QED
           BY <1>7, <2>1, <2>2 DEF CountInMemory, Requests, Places
<1>8. ASSUME NEW t \in Tasks, Add(t)
      PROVE  TypeOK'
      <2>1. task' \in [Tasks -> Requests]
           BY <1>8, MovesTyped DEF Add, Places
      <2> QED
           BY <1>8, <2>1 DEF Add, Requests, Places
<1>9. ASSUME NEW t \in Tasks, Acquire(t)
      PROVE  TypeOK'
      <2>1. task' \in [Tasks -> Requests]
           BY <1>9, MovesTyped DEF Acquire, Places
      <2> QED
           BY <1>9, <2>1 DEF Acquire, Requests, Places
<1>10. ASSUME NEW t \in Tasks, Contended(t)
       PROVE  TypeOK'
      <2>1. task' \in [Tasks -> Requests]
           BY <1>10, MovesTyped DEF Contended, Places
      <2> QED
           BY <1>10, <2>1 DEF Contended, Requests, Places
<1>11. ASSUME NEW t \in Tasks, Read(t)
       PROVE  TypeOK'
      BY <1>11 DEF Read
<1>12. ASSUME NEW t \in Tasks, Login(t)
       PROVE  TypeOK'
      <2>1. issued' \in 0..MaxTokens
           BY <1>12 DEF Login
      <2>2. task \in [Tasks -> Requests] /\ "save" \in Places
           BY DEF Requests, Places
      <2>3. task' = [[task EXCEPT ![t].at = "save"] EXCEPT ![t].token = issued']
           BY <1>12 DEF Login
      <2>4. [task EXCEPT ![t].at = "save"] \in [Tasks -> Requests]
           BY <2>2, FieldTyped
      <2>5. task' \in [Tasks -> Requests]
        <3> HIDE DEF TypeOK
        <3> QED
            BY <2>1, <2>3, <2>4, FieldTyped
      <2> QED
           BY <1>12, <2>1, <2>5 DEF Login, Requests, Places
<1>13. ASSUME NEW t \in Tasks, LoginFails(t)
       PROVE  TypeOK'
      <2>1. task' \in [Tasks -> Requests]
           BY <1>13, MovesTyped DEF LoginFails, Places
      <2> QED
           BY <1>13, <2>1 DEF LoginFails, Requests, Places
<1>14. ASSUME NEW t \in Tasks, Save(t)
       PROVE  TypeOK'
      <2>1. task' \in [Tasks -> Requests]
           BY <1>14, MovesTyped DEF Save, Places
      <2>2. session' \in [status : {"none", "valid", "expired"}, token : 0..MaxTokens]
           BY <1>14 DEF Save
      <2>3. byLate' = byLate \/ byLate' = (t \in late)
           BY <1>14, Zenon DEF Save
      <2>4. (t \in late) \in BOOLEAN
           BY SMT
      <2>5. byLate \in BOOLEAN
           BY DEF TypeOK
      <2>6. byLate' \in BOOLEAN
           BY <2>3, <2>4, <2>5, Zenon
      <2> QED
           BY <1>14, <2>1, <2>2, <2>6 DEF Save, Requests, Places
<1>15. ASSUME NEW t \in Tasks, Release(t)
       PROVE  TypeOK'
      <2>1. task' \in [Tasks -> Requests]
           BY <1>15, MovesTyped DEF Release, Places
      <2> QED
           BY <1>15, <2>1 DEF Release, LockAfter, Requests, Places
<1>16. ASSUME NEW t \in Tasks, Dies(t)
       PROVE  TypeOK'
      <2>1. task' \in [Tasks -> Requests]
           BY <1>16, MovesTyped DEF Dies, Places
      <2> QED
           BY <1>16, <2>1 DEF Dies, Requests, Places
<1>17. ASSUME NEW t \in Tasks, NEW force \in BOOLEAN, Ensure(t, force)
       PROVE  TypeOK'
      <2>1. task \in [Tasks -> Requests] /\ "lock" \in Places
           BY DEF Requests, Places
      <2>2. task' = [[task EXCEPT ![t].at = "lock"] EXCEPT ![t].force = force]
           BY <1>17 DEF Ensure
      <2>3. [task EXCEPT ![t].at = "lock"] \in [Tasks -> Requests]
           BY <2>1, FieldTyped
      <2>4. task' \in [Tasks -> Requests]
        <3> HIDE DEF TypeOK
        <3> QED
            BY <2>2, <2>3, FieldTyped
      <2> QED
           BY <1>17, <2>4 DEF Ensure, Requests, Places
<1>18. CASE UNCHANGED vars
      BY <1>18 DEF vars
<1> QED
    BY <1>1, <1>2, <1>3, <1>4, <1>5, <1>6, <1>7, <1>8, <1>9,
       <1>10, <1>11, <1>12, <1>13, <1>14, <1>15, <1>16, <1>17, <1>18 DEF Next

\* A request that goes in has the lock, and loses it only by being late.
LEMMA LockStep ==
    ASSUME TypeOK, LockInv, [Next]_vars
    PROVE  LockInv'
<1> USE GatewayAssumption DEF TypeOK, LockInv, Inside
<1>1. CASE Slide
      BY <1>1 DEF Slide
<1>2. CASE LockExpires
      BY <1>2 DEF LockExpires, LateAfter
<1>3. CASE SessionExpires
      BY <1>3 DEF SessionExpires
<1>4. CASE Restart
      BY <1>4 DEF Restart, Idle
<1>5. ASSUME NEW t \in Tasks, Order(t)
      PROVE  LockInv'
      BY <1>5 DEF Order, Go
<1>6. ASSUME NEW t \in Tasks, Count(t)
      PROVE  LockInv'
      BY <1>6 DEF Count, Go, End, Idle
<1>7. ASSUME NEW t \in Tasks, CountInMemory(t)
      PROVE  LockInv'
      BY <1>7 DEF CountInMemory, Go, End, Idle
<1>8. ASSUME NEW t \in Tasks, Add(t)
      PROVE  LockInv'
      BY <1>8 DEF Add, Go
<1>9. ASSUME NEW t \in Tasks, Acquire(t)
      PROVE  LockInv'
      BY <1>9 DEF Acquire, Go, Free
<1>10. ASSUME NEW t \in Tasks, Contended(t)
       PROVE  LockInv'
      BY <1>10 DEF Contended, End, Idle
<1>11. ASSUME NEW t \in Tasks, Read(t)
       PROVE  LockInv'
      BY <1>11 DEF Read
<1>12. ASSUME NEW t \in Tasks, Login(t)
       PROVE  LockInv'
      BY <1>12 DEF Login
<1>13. ASSUME NEW t \in Tasks, LoginFails(t)
       PROVE  LockInv'
      BY <1>13 DEF LoginFails, Go
<1>14. ASSUME NEW t \in Tasks, Save(t)
       PROVE  LockInv'
      BY <1>14 DEF Save, Go
<1>15. ASSUME NEW t \in Tasks, Release(t)
       PROVE  LockInv'
      BY <1>15 DEF Release, LockAfter, End, Idle
<1>16. ASSUME NEW t \in Tasks, Dies(t)
       PROVE  LockInv'
      BY <1>16 DEF Dies, End, Idle
<1>17. ASSUME NEW t \in Tasks, NEW force \in BOOLEAN, Ensure(t, force)
       PROVE  LockInv'
      BY <1>17 DEF Ensure
<1>18. CASE UNCHANGED vars
      BY <1>18 DEF vars
<1> QED
    BY <1>1, <1>2, <1>3, <1>4, <1>5, <1>6, <1>7, <1>8, <1>9,
       <1>10, <1>11, <1>12, <1>13, <1>14, <1>15, <1>16, <1>17, <1>18 DEF Next

\* A token in its row or on its way there is one that the broker issued, and
\* only one request that is not late has one on its way.
LEMMA TokenStep ==
    ASSUME TypeOK, LockInv, TokenInv, [Next]_vars
    PROVE  TokenInv'
<1> USE GatewayAssumption DEF TypeOK, TokenInv
<1>1. CASE Slide
      BY <1>1 DEF Slide
<1>2. CASE LockExpires
      BY <1>2 DEF LockExpires, LateAfter, Inside
<1>3. CASE SessionExpires
      BY <1>3 DEF SessionExpires
<1>4. CASE Restart
      BY <1>4 DEF Restart, Idle, NoSession
<1>5. ASSUME NEW t \in Tasks, Order(t)
      PROVE  TokenInv'
      BY <1>5 DEF Order, Go
<1>6. ASSUME NEW t \in Tasks, Count(t)
      PROVE  TokenInv'
      BY <1>6 DEF Count, Go, End, Idle
<1>7. ASSUME NEW t \in Tasks, CountInMemory(t)
      PROVE  TokenInv'
      BY <1>7 DEF CountInMemory, Go, End, Idle
<1>8. ASSUME NEW t \in Tasks, Add(t)
      PROVE  TokenInv'
      BY <1>8 DEF Add, Go
<1>9. ASSUME NEW t \in Tasks, Acquire(t)
      PROVE  TokenInv'
      BY <1>9 DEF Acquire, Go
<1>10. ASSUME NEW t \in Tasks, Contended(t)
       PROVE  TokenInv'
      BY <1>10 DEF Contended, End, Idle
<1>11. ASSUME NEW t \in Tasks, Read(t)
       PROVE  TokenInv'
      BY <1>11 DEF Read
<1>12. ASSUME NEW t \in Tasks, Login(t)
       PROVE  TokenInv'
      BY <1>12 DEF Login
<1>13. ASSUME NEW t \in Tasks, LoginFails(t)
       PROVE  TokenInv'
      BY <1>13 DEF LoginFails, Go
<1>14. ASSUME NEW t \in Tasks, Save(t)
       PROVE  TokenInv'
      BY <1>14 DEF Save, Go, Inside, LockInv
<1>15. ASSUME NEW t \in Tasks, Release(t)
       PROVE  TokenInv'
      BY <1>15 DEF Release, End, Idle
<1>16. ASSUME NEW t \in Tasks, Dies(t)
       PROVE  TokenInv'
      BY <1>16 DEF Dies, End, Idle
<1>17. ASSUME NEW t \in Tasks, NEW force \in BOOLEAN, Ensure(t, force)
       PROVE  TokenInv'
      BY <1>17 DEF Ensure
<1>18. CASE UNCHANGED vars
      BY <1>18 DEF vars
<1> QED
    BY <1>1, <1>2, <1>3, <1>4, <1>5, <1>6, <1>7, <1>8, <1>9,
       <1>10, <1>11, <1>12, <1>13, <1>14, <1>15, <1>16, <1>17, <1>18 DEF Next

\* There are no more places not counted yet than there are requests.
LEMMA AddersCounted ==
    /\ IsFiniteSet(Adders) /\ Cardinality(Adders) \in Nat
    /\ Cardinality(Tasks) \in Nat /\ Cardinality(Adders) <= Cardinality(Tasks)
    /\ Cardinality(Adders') \in Nat /\ Cardinality(Adders') <= Cardinality(Tasks)
<1>1. Adders \subseteq Tasks /\ Adders' \subseteq Tasks
      BY DEF Adders
<1> QED
    BY <1>1, FS_Subset, FS_CardinalityType, GatewayAssumption

\* Fewer of them, and no more calls in the window, keep the bound.
LEMMA FewerAdders ==
    ASSUME TypeOK, LimitInv, Adders' \subseteq Adders,
           window' \in Nat, window' <= window, limits' = limits
    PROVE  LimitInv'
<1>1. Cardinality(Adders') <= Cardinality(Adders)
      BY AddersCounted, FS_Subset
<1> QED
    BY <1>1, AddersCounted, GatewayAssumption DEF LimitInv, TypeOK

\* Who is let through takes a place that was free when it counted.
LEMMA LimitStep ==
    ASSUME TypeOK, LimitInv, [Next]_vars
    PROVE  LimitInv'
<1> USE GatewayAssumption DEF TypeOK, LimitInv
<1>1. CASE Slide
      <2>1. Adders' \subseteq Adders
           BY <1>1 DEF Slide, Adders
      <2> QED
           BY <1>1, <2>1, FewerAdders DEF Slide
<1>2. CASE LockExpires
      <2>1. Adders' \subseteq Adders
           BY <1>2 DEF LockExpires, Adders
      <2> QED
           BY <1>2, <2>1, FewerAdders DEF LockExpires
<1>3. CASE SessionExpires
      <2>1. Adders' \subseteq Adders
           BY <1>3 DEF SessionExpires, Adders
      <2> QED
           BY <1>3, <2>1, FewerAdders DEF SessionExpires
<1>4. CASE Restart
      <2>1. Adders' = {}
           BY <1>4 DEF Restart, Idle, Adders
      <2>2. Cardinality(Adders') = 0
           BY <2>1, FS_EmptySet
      <2> QED
           BY <1>4, <2>1, <2>2, AddersCounted DEF Restart
<1>5. ASSUME NEW t \in Tasks, Order(t)
      PROVE  LimitInv'
      <2>1. Adders' \subseteq Adders
           BY <1>5 DEF Order, Go, Adders
      <2> QED
           BY <1>5, <2>1, FewerAdders DEF Order
<1>6. ASSUME NEW t \in Tasks, Count(t)
      PROVE  LimitInv'
      <2>1. Allowed => window' + Cardinality(Adders') < Limit + Cardinality(Tasks)
           BY <1>6, AddersCounted DEF Count, Allowed
      <2>2. ~Allowed => Adders' \subseteq Adders
           BY <1>6 DEF Count, End, Idle, Adders
      <2> QED
           BY <1>6, <2>1, <2>2, FewerAdders DEF Count
<1>7. ASSUME NEW t \in Tasks, CountInMemory(t)
      PROVE  LimitInv'
      <2>1. Adders' \subseteq Adders
           BY <1>7 DEF CountInMemory, Go, End, Idle, Adders
      <2> QED
           BY <1>7, <2>1 DEF CountInMemory, Allowed
<1>8. ASSUME NEW t \in Tasks, Add(t)
      PROVE  LimitInv'
      <2>1. Adders' = Adders \ {t} /\ t \in Adders
           BY <1>8 DEF Add, Go, Adders
      <2>2. Cardinality(Adders') = Cardinality(Adders) - 1
           BY <2>1, FS_RemoveElement, AddersCounted
      <2>3. limits # "memory"
           BY <2>1
      <2> QED
           BY <1>8, <2>2, <2>3, AddersCounted DEF Add
<1>9. ASSUME NEW t \in Tasks, Acquire(t)
      PROVE  LimitInv'
      <2>1. Adders' \subseteq Adders
           BY <1>9 DEF Acquire, Go, Adders
      <2> QED
           BY <1>9, <2>1, FewerAdders DEF Acquire
<1>10. ASSUME NEW t \in Tasks, Contended(t)
       PROVE  LimitInv'
      <2>1. Adders' \subseteq Adders
           BY <1>10 DEF Contended, End, Idle, Adders
      <2> QED
           BY <1>10, <2>1, FewerAdders DEF Contended
<1>11. ASSUME NEW t \in Tasks, Read(t)
       PROVE  LimitInv'
      <2>1. Adders' \subseteq Adders
           BY <1>11 DEF Read, Adders
      <2> QED
           BY <1>11, <2>1, FewerAdders DEF Read
<1>12. ASSUME NEW t \in Tasks, Login(t)
       PROVE  LimitInv'
      <2>1. Adders' \subseteq Adders
           BY <1>12 DEF Login, Adders
      <2> QED
           BY <1>12, <2>1, FewerAdders DEF Login
<1>13. ASSUME NEW t \in Tasks, LoginFails(t)
       PROVE  LimitInv'
      <2>1. Adders' \subseteq Adders
           BY <1>13 DEF LoginFails, Go, Adders
      <2> QED
           BY <1>13, <2>1, FewerAdders DEF LoginFails
<1>14. ASSUME NEW t \in Tasks, Save(t)
       PROVE  LimitInv'
      <2>1. Adders' \subseteq Adders
           BY <1>14 DEF Save, Go, Adders
      <2> QED
           BY <1>14, <2>1, FewerAdders DEF Save
<1>15. ASSUME NEW t \in Tasks, Release(t)
       PROVE  LimitInv'
      <2>1. Adders' \subseteq Adders
           BY <1>15 DEF Release, End, Idle, Adders
      <2> QED
           BY <1>15, <2>1, FewerAdders DEF Release
<1>16. ASSUME NEW t \in Tasks, Dies(t)
       PROVE  LimitInv'
      <2>1. Adders' \subseteq Adders
           BY <1>16 DEF Dies, End, Idle, Adders
      <2> QED
           BY <1>16, <2>1, FewerAdders DEF Dies
<1>17. ASSUME NEW t \in Tasks, NEW force \in BOOLEAN, Ensure(t, force)
       PROVE  LimitInv'
      <2>1. Adders' \subseteq Adders
           BY <1>17 DEF Ensure, Adders
      <2> QED
           BY <1>17, <2>1, FewerAdders DEF Ensure
<1>18. CASE UNCHANGED vars
      <2>1. Adders' = Adders
           BY <1>18 DEF vars, Adders
      <2> QED
           BY <1>18, <2>1 DEF vars
<1> QED
    BY <1>1, <1>2, <1>3, <1>4, <1>5, <1>6, <1>7, <1>8, <1>9,
       <1>10, <1>11, <1>12, <1>13, <1>14, <1>15, <1>16, <1>17, <1>18 DEF Next

-----------------------------------------------------------------------------
\* The conjunction is inductive.
LEMMA Inductive == Spec => []Inv
<1>1. Init => Inv
  <2> SUFFICES ASSUME Init PROVE Inv
      OBVIOUS
  <2> USE GatewayAssumption DEF Init
  <2>1. TypeOK
    <3>1. Idle \in Requests
          BY DEF Idle, NoSession, Requests, Places
    <3>2. task \in [Tasks -> Requests]
          BY <3>1
    <3>3. byLate \in BOOLEAN
          BY Zenon
    <3> QED
        BY <3>2, <3>3 DEF TypeOK, Backends, NoSession, Requests, Places
  <2>2. Adders = {}
        BY DEF Adders, Idle
  <2>3. Cardinality({}) = 0
        BY FS_EmptySet
  <2>4. LimitInv
        BY <2>2, <2>3, AddersCounted DEF LimitInv
  <2>5. LockInv /\ TokenInv
        BY DEF LockInv, TokenInv, Inside, Idle, NoSession
  <2> QED
      BY <2>1, <2>4, <2>5 DEF Inv
<1>2. Inv /\ [Next]_vars => Inv'
      BY TypeStep, LimitStep, LockStep, TokenStep DEF Inv
<1> QED
    BY <1>1, <1>2, PTL DEF Spec

\* Every variable keeps its type: tokens and faults stay within their bounds,
\* and the lock is nobody's or a request's (rate_limit/service.py,
\* sessions/service.py).
THEOREM GatewayTyped == Spec => []TypeOK
<1>1. Inv => TypeOK
      BY DEF Inv
<1> QED
    BY <1>1, Inductive, PTL

\* The limiter of providers/redis.py counts in one call and adds in another, so
\* requests that count together exceed the limit, by fewer than there are of
\* them; providers/memory.py never does.
THEOREM LimitKept == Spec => []LimitHolds
<1>1. Inv => LimitHolds
      BY AddersCounted, GatewayAssumption DEF Inv, TypeOK, LimitInv, LimitHolds
<1> QED
    BY <1>1, Inductive, PTL

\* SessionService.ensure lets one request refresh a session at a time, as long
\* as no lock expires before its owner is done.
THEOREM RefreshedByOne == Spec => []OneRefresher
<1>1. Inv => OneRefresher
      BY DEF Inv, LockInv, OneRefresher
<1> QED
    BY <1>1, Inductive, PTL

\* The row of a session goes back to older tokens only where a request wrote
\* that had lost its lock, before this step or in it.
THEOREM TokensMoveOn == Spec => NewerTokensStay
<1> DEFINE Backwards == session'.token < session.token
           ByALate   == byLate \/ \E t \in late : task[t].at = "save"
<1>1. ASSUME Inv, [Next]_vars
      PROVE  Backwards => ByALate
  <2> USE <1>1 DEF Inv, TypeOK
  <2>1. ASSUME NEW t \in Tasks, Save(t)
        PROVE  Backwards => ByALate
        BY <2>1 DEF Save, TokenInv
  <2>2. CASE SessionExpires
        BY <2>2 DEF SessionExpires
  <2>3. CASE UNCHANGED session
        BY <2>3
  <2>4. SessionExpires \/ UNCHANGED session \/ \E t \in Tasks : Save(t)
        BY DEF Next, vars, Slide, LockExpires, Restart, Order, Count, CountInMemory, Add,
               Ensure, Acquire, Contended, Read, Login, LoginFails, Release, Dies
  <2> QED
      BY <2>1, <2>2, <2>3, <2>4
<1>2. Inv /\ [Next]_vars => [Backwards => ByALate]_vars
      BY <1>1
<1> QED
    BY <1>2, Inductive, PTL DEF Spec, NewerTokensStay
=============================================================================
