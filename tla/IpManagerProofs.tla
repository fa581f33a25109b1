--------------------------- MODULE IpManagerProofs ---------------------------
(***************************************************************************)
(* Proofs about IpManager, for any brokers, IPs, instances and requests.   *)
(* FrameOK says what a request has in its frame at each place; OneInv      *)
(* rests on the broker's lock; QuietInv is about the operations without    *)
(* rotation, which all hold the lock of their IP; CoolInv and HistoryInv   *)
(* are about rotation without releases.                                    *)
(***************************************************************************)
EXTENDS IpManager, FiniteSetTheorems, SequenceTheorems, TLAPS

IpOps     == {"assign", "attach", "detach", "release"}
Chosen    == Rotating \ {"read"}
Created   == Chosen \ {"create"}
Marked    == {"drain", "abort", "cutover"}

\* What a request's frame holds at each place.
FrameOK(t) ==
    /\ pc[t] = "idle" => local[t] = IdleFrame
    /\ pc[t] \in {"check", "call", "commit"} =>
          /\ local[t].op \in IpOps \cup {"allocate"} /\ local[t].i \in Ips
          /\ local[t].op = "assign" => local[t].b \in Brokers /\ pc[t] # "call"
          /\ local[t].op = "attach" => local[t].n \in Instances
          /\ local[t].op = "allocate" => pc[t] # "check"
    /\ pc[t] \in Rotating => local[t].op = "rotate" /\ local[t].b \in Brokers
    /\ pc[t] \in Chosen =>
          \E a \in DOMAIN assignments :
             /\ local[t].asgs = {a}
             /\ assignments[a].broker = local[t].b /\ assignments[a].ip = local[t].i
    /\ pc[t] \in {"read", "create"} => local[t].new = None
    /\ pc[t] \in Created => local[t].new \in Ips /\ local[t].newView.status # "released"
    /\ pc[t] \in Marked => local[t].loaded = "draining"
    /\ local[t].asgs \subseteq DOMAIN assignments
FramesOK == \A t \in Tasks : FrameOK(t)
FrameInv == TypeOK /\ FramesOK

\* What drains has a rotation that will end it.
DrainInv ==
    faults = 0 =>
        \A a \in DOMAIN assignments : assignments[a].status = "draining" =>
            \E t \in Tasks : pc[t] \in Marked /\ a \in local[t].asgs

\* A request has its locks until it returns.
LocksHeld == \A t \in Tasks : pc[t] # "idle" => \A k \in LocksOf(local[t]) : lock[k] = t

\* Who is about to assign has seen no active assignment, who rotates the only one.
SeesActive ==
    \A t \in Tasks :
        /\ pc[t] = "commit" /\ local[t].op = "assign" => ActiveOf(local[t].b) = {}
        /\ pc[t] \in Chosen => ActiveOf(local[t].b) \subseteq local[t].asgs
OneActive == \A b \in Brokers : \A a, c \in ActiveOf(b) : a = c
OneInv    == LocksHeld /\ SeesActive /\ OneActive

\* No two requests are about one IP.
Apart == \A t, u \in Tasks :
             pc[t] # "idle" /\ pc[u] # "idle" /\ local[t].i = local[u].i => t = u
\* What a request that is past its checks has seen of its IP still holds.
Fresh(t) ==
    /\ local[t].op = "allocate" => ips[local[t].i] = AbsentIp
    /\ local[t].view = ips[local[t].i]
    /\ local[t].op \in {"assign", "release"} => ips[local[t].i].status # "attached"
    /\ local[t].op = "assign" => <<local[t].b, local[t].i>> \notin cooling
    /\ local[t].asgs = IF local[t].op = "release" THEN ActiveOn(local[t].i) ELSE {}
    /\ pc[t] = "commit" /\ faults = 0 =>
          (cloud[local[t].i] = "attached" <=> Changed(local[t]).status = "attached")
NoRotation ==
    /\ \A t \in Tasks : pc[t] \notin Rotating
    /\ \A a \in DOMAIN assignments : assignments[a].status # "draining"
AllFresh == \A t \in Tasks : pc[t] \in {"call", "commit"} => Fresh(t)
CloudInv ==
    faults = 0 => \A i \in Ips :
        (\A t \in Tasks : pc[t] = "commit" => local[t].i # i) =>
            (cloud[i] = "attached" <=> ips[i].status = "attached")
QuietInv ==
    /\ NoRotation /\ Apart /\ AllFresh /\ CloudInv
    /\ HistoryMatches /\ ActiveIpUsable /\ InstanceIffAttached
-----------------------------------------------------------------------------
(* What the operators that the actions share do to a state's parts.         *)

\* A commit writes columns that the row can hold.
LEMMA FlushTyped ==
    ASSUME NEW r \in IpRow, NEW v \in IpRow, NEW n \in IpRow
    PROVE  Flush(r, v, n) \in IpRow
BY DEF Flush, IpRow

\* Marking assignments changes their status and nothing else.
LEMMA MarkAllEffect ==
    ASSUME NEW s \in Seq(Assignment), NEW A,
           NEW status \in {"active", "draining", "released"}
    PROVE  /\ MarkAll(s, A, status) \in Seq(Assignment)
           /\ DOMAIN MarkAll(s, A, status) = DOMAIN s
           /\ \A a \in DOMAIN s :
                 /\ MarkAll(s, A, status)[a].broker = s[a].broker
                 /\ MarkAll(s, A, status)[a].ip = s[a].ip
                 /\ MarkAll(s, A, status)[a].status = IF a \in A THEN status
                                                      ELSE s[a].status
<1> DEFINE m == MarkAll(s, A, status)
<1>1. \A a \in DOMAIN s : s[a] \in Assignment
      OBVIOUS
<1>2. \A a \in DOMAIN s : [s[a] EXCEPT !.status = status] \in Assignment
      BY <1>1 DEF Assignment
<1>3. m = [a \in 1..Len(s) |-> IF a \in A THEN [s[a] EXCEPT !.status = status] ELSE s[a]]
      BY DEF MarkAll
<1>4. \A a \in 1..Len(s) : m[a] = IF a \in A THEN [s[a] EXCEPT !.status = status] ELSE s[a]
      BY <1>3
<1>5. DOMAIN m = DOMAIN s
      BY DEF MarkAll
<1>6. m \in Seq(Assignment)
  <2>1. DOMAIN s = 1..Len(s)
        OBVIOUS
  <2> HIDE DEF m
  <2>2. \A a \in 1..Len(s) : m[a] \in Assignment
        BY <1>1, <1>2, <1>4, <2>1
  <2>3. m = [a \in 1..Len(s) |-> m[a]] /\ Len(s) \in Nat
        BY <1>3
  <2>4. m \in [1..Len(s) -> Assignment]
        BY <2>2, <2>3
  <2> QED
      BY <2>3, <2>4, SeqDef
<1>7. ASSUME NEW a \in DOMAIN s
      PROVE  /\ m[a].broker = s[a].broker /\ m[a].ip = s[a].ip
             /\ m[a].status = IF a \in A THEN status ELSE s[a].status
  <2> HIDE DEF m
  <2>0. a \in 1..Len(s)
        OBVIOUS
  <2>1. CASE a \in A
    <3>1. m[a] = [s[a] EXCEPT !.status = status]
          BY <1>4, <2>0, <2>1
    <3>2. \A r \in Assignment : /\ [r EXCEPT !.status = status].broker = r.broker
                                /\ [r EXCEPT !.status = status].ip = r.ip
                                /\ [r EXCEPT !.status = status].status = status
          BY DEF Assignment
    <3> QED
        BY <1>1, <2>1, <3>1, <3>2
  <2>2. CASE a \notin A
        BY <1>4, <2>0, <2>2
  <2> QED
      BY <2>1, <2>2
<1> QED
    BY <1>5, <1>6, <1>7 DEF MarkAll

\* A new assignment comes last and is active.
LEMMA AddEffect ==
    ASSUME NEW s \in Seq(Assignment), NEW b \in Brokers, NEW i \in Ips
    PROVE  /\ Add(s, b, i) \in Seq(Assignment)
           /\ DOMAIN Add(s, b, i) = DOMAIN s \cup {Len(s) + 1}
           /\ DOMAIN s \subseteq DOMAIN Add(s, b, i)
           /\ Len(s) + 1 \notin DOMAIN s
           /\ \A a \in DOMAIN s : Add(s, b, i)[a] = s[a]
           /\ Add(s, b, i)[Len(s) + 1] = [broker |-> b, ip |-> i, status |-> "active"]
<1> DEFINE r == [broker |-> b, ip |-> i, status |-> "active"]
<1>1. r \in Assignment
      BY DEF Assignment
<1> HIDE DEF r
<1>2. /\ Append(s, r) \in Seq(Assignment)
      /\ Len(Append(s, r)) = Len(s) + 1
      /\ \A a \in 1..Len(s) : Append(s, r)[a] = s[a]
      /\ Append(s, r)[Len(s) + 1] = r
      BY <1>1, AppendProperties
<1>3. DOMAIN s = 1..Len(s) /\ Len(s) \in Nat
      OBVIOUS
<1>4. DOMAIN Append(s, r) = 1..Len(s) + 1
      BY <1>2
<1>5. 1..Len(s) + 1 = 1..Len(s) \cup {Len(s) + 1} /\ Len(s) + 1 \notin 1..Len(s)
      BY <1>3
<1>6. Append(s, r) = Add(s, b, i)
      BY DEF Add, r
<1> QED
    BY <1>2, <1>3, <1>4, <1>5, <1>6 DEF r

\* A frame stays a frame when a field of it is set.
LEMMA FieldTyped ==
    ASSUME NEW f \in Frame
    PROVE  /\ \A v \in IpRow : [f EXCEPT !.view = v] \in Frame
           /\ \A v \in IpRow : [f EXCEPT !.newView = v] \in Frame
           /\ \A A \in SUBSET Nat : [f EXCEPT !.asgs = A] \in Frame
           /\ \A i \in Ips : [f EXCEPT !.i = i] \in Frame
           /\ \A i \in Ips : [f EXCEPT !.new = i] \in Frame
           /\ \A n \in Instances \cup {None} : [f EXCEPT !.n = n] \in Frame
           /\ \A l \in {"active", "draining", "released"} : [f EXCEPT !.loaded = l] \in Frame
<1>1. ASSUME NEW v \in IpRow
      PROVE  [f EXCEPT !.view = v] \in Frame /\ [f EXCEPT !.newView = v] \in Frame
      BY DEF Frame
<1>2. ASSUME NEW A \in SUBSET Nat
      PROVE  [f EXCEPT !.asgs = A] \in Frame
      BY DEF Frame
<1>3. ASSUME NEW i \in Ips
      PROVE  [f EXCEPT !.i = i] \in Frame /\ [f EXCEPT !.new = i] \in Frame
      BY DEF Frame
<1>4. ASSUME NEW n \in Instances \cup {None}
      PROVE  [f EXCEPT !.n = n] \in Frame
      BY DEF Frame
<1>5. ASSUME NEW l \in {"active", "draining", "released"}
      PROVE  [f EXCEPT !.loaded = l] \in Frame
      BY DEF Frame
<1> QED
    BY <1>1, <1>2, <1>3, <1>4, <1>5

\* A request that has returned has an empty frame and no lock.
LEMMA ReturnEffect ==
    ASSUME TypeOK, NEW t \in Tasks, Return(t)
    PROVE  /\ pc' \in [Tasks -> Pcs] /\ pc'[t] = "idle"
           /\ local' \in [Tasks -> Frame] /\ local'[t] = IdleFrame
           /\ lock' \in [Keys -> Tasks \cup {None, Lost}]
           /\ \A u \in Tasks \ {t} : pc'[u] = pc[u] /\ local'[u] = local[u]
           /\ \A k \in Keys : lock'[k] = IF lock[k] = t THEN None ELSE lock[k]
<1>1. /\ pc' = [pc EXCEPT ![t] = "idle"] /\ local' = [local EXCEPT ![t] = IdleFrame]
      /\ lock' = [k \in Keys |-> IF lock[k] = t THEN None ELSE lock[k]]
      BY DEF Return, Goto
<1>2. /\ pc \in [Tasks -> Pcs] /\ local \in [Tasks -> Frame]
      /\ lock \in [Keys -> Tasks \cup {None, Lost}]
      BY DEF TypeOK
<1>3. IdleFrame \in Frame /\ "idle" \in Pcs
      BY DEF IdleFrame, Asking, Frame, AbsentIp, IpRow, IpStatuses, Pcs
<1> QED
    BY <1>1, <1>2, <1>3

\* A request that goes on.
LEMMA GotoEffect ==
    ASSUME TypeOK, NEW t \in Tasks, NEW where \in Pcs, Goto(t, where)
    PROVE  /\ pc' \in [Tasks -> Pcs] /\ pc'[t] = where
           /\ \A u \in Tasks \ {t} : pc'[u] = pc[u]
BY DEF TypeOK, Goto

\* What becomes of one frame.
LEMMA FrameEffect ==
    ASSUME TypeOK, NEW t \in Tasks, NEW f \in Frame, local' = [local EXCEPT ![t] = f]
    PROVE  /\ local' \in [Tasks -> Frame] /\ local'[t] = f
           /\ \A u \in Tasks \ {t} : local'[u] = local[u]
BY DEF TypeOK

\* The frame a request starts with.
LEMMA AskingTyped ==
    ASSUME NEW op \in Ops, NEW b \in Brokers \cup {None}, NEW i \in Ips \cup {None},
           NEW n \in Instances \cup {None}, NEW force \in BOOLEAN
    PROVE  Asking(op, b, i, n, force) \in Frame
BY DEF Asking, Frame, AbsentIp, IpRow, IpStatuses

\* Every request starts with an empty frame but for what it asks for.
LEMMA RequestEffect ==
    ASSUME NEW t \in Tasks, Request(t)
    PROVE  \E f \in Frame :
              /\ Begin(t, f)
              /\ f.asgs = {} /\ f.new = None /\ f.view = AbsentIp
              /\ \/ /\ f.op \in IpOps \cup {"allocate"} /\ f.i \in Ips
                    /\ f.op = "assign" => f.b \in Brokers
                    /\ f.op = "attach" => f.n \in Instances
                    /\ f.op = "allocate" => Unused(f.i)
                    /\ f.op # "allocate" => ips[f.i].status # "absent"
                 \/ f.op = "rotate" /\ f.b \in Brokers /\ f.i = None
<1>1. ASSUME NEW i \in Ips, Allocate(t, i)
      PROVE  \E f \in Frame :
                /\ Begin(t, f)
                /\ f.asgs = {} /\ f.new = None /\ f.view = AbsentIp
                /\ f.op = "allocate" /\ f.i \in Ips /\ Unused(f.i)
  <2> DEFINE f == Asking("allocate", None, i, None, FALSE)
  <2>1. Begin(t, f) /\ Unused(i)
        BY <1>1 DEF Allocate
  <2>2. f \in Frame
    <3>1. "allocate" \in Ops
          BY <2>1 DEF Begin, Asking
    <3> QED
        BY <3>1, AskingTyped
  <2>3. /\ f.op = "allocate" /\ f.i = i
        /\ f.asgs = {} /\ f.new = None /\ f.view = AbsentIp
        BY DEF Asking
  <2> HIDE DEF f
  <2> QED
      BY <2>1, <2>2, <2>3
<1>2. ASSUME NEW i \in Ips, Detach(t, i)
      PROVE  \E f \in Frame :
                /\ Begin(t, f)
                /\ f.asgs = {} /\ f.new = None /\ f.view = AbsentIp
                /\ f.op = "detach" /\ f.i \in Ips /\ ips[f.i].status # "absent"
  <2> DEFINE f == Asking("detach", None, i, None, FALSE)
  <2>1. Begin(t, f) /\ ips[i].status # "absent"
        BY <1>2 DEF Detach
  <2>2. f \in Frame
    <3>1. "detach" \in Ops
          BY <2>1 DEF Begin, Asking
    <3> QED
        BY <3>1, AskingTyped
  <2>3. /\ f.op = "detach" /\ f.i = i
        /\ f.asgs = {} /\ f.new = None /\ f.view = AbsentIp
        BY DEF Asking
  <2> HIDE DEF f
  <2> QED
      BY <2>1, <2>2, <2>3
<1>3. ASSUME NEW i \in Ips, Release(t, i)
      PROVE  \E f \in Frame :
                /\ Begin(t, f)
                /\ f.asgs = {} /\ f.new = None /\ f.view = AbsentIp
                /\ f.op = "release" /\ f.i \in Ips /\ ips[f.i].status # "absent"
  <2> DEFINE f == Asking("release", None, i, None, FALSE)
  <2>1. Begin(t, f) /\ ips[i].status # "absent"
        BY <1>3 DEF Release
  <2>2. f \in Frame
    <3>1. "release" \in Ops
          BY <2>1 DEF Begin, Asking
    <3> QED
        BY <3>1, AskingTyped
  <2>3. /\ f.op = "release" /\ f.i = i
        /\ f.asgs = {} /\ f.new = None /\ f.view = AbsentIp
        BY DEF Asking
  <2> HIDE DEF f
  <2> QED
      BY <2>1, <2>2, <2>3
<1>4. ASSUME NEW i \in Ips, NEW b \in Brokers, Assign(t, b, i)
      PROVE  \E f \in Frame :
                /\ Begin(t, f)
                /\ f.asgs = {} /\ f.new = None /\ f.view = AbsentIp
                /\ f.op = "assign" /\ f.i \in Ips /\ ips[f.i].status # "absent"
                /\ f.b \in Brokers
  <2> DEFINE f == Asking("assign", b, i, None, FALSE)
  <2>1. Begin(t, f) /\ ips[i].status # "absent"
        BY <1>4 DEF Assign
  <2>2. f \in Frame
    <3>1. "assign" \in Ops
          BY <2>1 DEF Begin, Asking
    <3> QED
        BY <3>1, AskingTyped
  <2>3. /\ f.op = "assign" /\ f.i = i /\ f.b = b
        /\ f.asgs = {} /\ f.new = None /\ f.view = AbsentIp
        BY DEF Asking
  <2> HIDE DEF f
  <2> QED
      BY <2>1, <2>2, <2>3
<1>5. ASSUME NEW i \in Ips, NEW n \in Instances, Attach(t, i, n)
      PROVE  \E f \in Frame :
                /\ Begin(t, f)
                /\ f.asgs = {} /\ f.new = None /\ f.view = AbsentIp
                /\ f.op = "attach" /\ f.i \in Ips /\ ips[f.i].status # "absent"
                /\ f.n \in Instances
  <2> DEFINE f == Asking("attach", None, i, n, FALSE)
  <2>1. Begin(t, f) /\ ips[i].status # "absent"
        BY <1>5 DEF Attach
  <2>2. f \in Frame
    <3>1. "attach" \in Ops
          BY <2>1 DEF Begin, Asking
    <3> QED
        BY <3>1, AskingTyped
  <2>3. /\ f.op = "attach" /\ f.i = i /\ f.n = n
        /\ f.asgs = {} /\ f.new = None /\ f.view = AbsentIp
        BY DEF Asking
  <2> HIDE DEF f
  <2> QED
      BY <2>1, <2>2, <2>3
<1>6. ASSUME NEW b \in Brokers, NEW force \in Forces, Rotate(t, b, force)
      PROVE  \E f \in Frame :
                /\ Begin(t, f)
                /\ f.asgs = {} /\ f.new = None /\ f.view = AbsentIp
                /\ f.op = "rotate" /\ f.b \in Brokers /\ f.i = None
  <2> DEFINE f == Asking("rotate", b, None, None, force)
  <2>1. Begin(t, f)
        BY <1>6 DEF Rotate
  <2>2. f \in Frame
    <3>1. "rotate" \in Ops
          BY <2>1 DEF Begin, Asking
    <3> QED
        BY <3>1, AskingTyped, IpAssumption
  <2>3. /\ f.op = "rotate" /\ f.b = b /\ f.i = None
        /\ f.asgs = {} /\ f.new = None /\ f.view = AbsentIp
        BY DEF Asking
  <2> HIDE DEF f
  <2> QED
      BY <2>1, <2>2, <2>3
<1> QED
    BY <1>1, <1>2, <1>3, <1>4, <1>5, <1>6 DEF Request, IpOps

-----------------------------------------------------------------------------
(* Types.                                                                  *)

\* Every IP row that an operation writes is one.
LEMMA ChangedTyped ==
    ASSUME NEW f \in Frame, f.op \in IpOps \cup {"allocate"}, f.op = "attach" => f.n \in Instances
    PROVE  Changed(f) \in IpRow
<1>1. f.view \in IpRow /\ f.n \in Instances \cup {None}
      BY DEF Frame
<1>2. CASE f.op = "assign"
  <2>1. [f.view EXCEPT !.status = "allocated"] \in IpRow
        BY <1>1 DEF IpRow, IpStatuses
  <2> QED
      BY <1>1, <1>2, <2>1 DEF Changed
<1>3. CASE f.op = "allocate"
      BY <1>3 DEF Changed, IpRow, IpStatuses
<1>4. CASE f.op = "attach"
      BY <1>1, <1>4 DEF Changed, IpRow, IpStatuses
<1>5. CASE f.op = "detach"
      BY <1>5 DEF Changed, IpRow, IpStatuses
<1>6. CASE f.op = "release"
  <2>1. [f.view EXCEPT !.status = "released"] \in IpRow
        BY <1>1 DEF IpRow, IpStatuses
  <2> QED
      BY <1>6, <2>1 DEF Changed
<1> QED
    BY <1>2, <1>3, <1>4, <1>5, <1>6 DEF IpOps

\* The provider keeps a status of every IP.
LEMMA ProvideTyped ==
    ASSUME TypeOK, NEW i \in Ips, NEW status \in IpStatuses
    PROVE  Provide(i, status) \in [Ips -> IpStatuses]
BY DEF TypeOK, Provide

\* One row of static_ips is written.
LEMMA IpsTyped ==
    ASSUME TypeOK, NEW i \in Ips, NEW r \in IpRow
    PROVE  [ips EXCEPT ![i] = r] \in [Ips -> IpRow]
BY DEF TypeOK

\* Closing usage rows leaves pairs.
LEMMA CloseTyped ==
    ASSUME TypeOK, NEW pairs, Close(pairs)
    PROVE  open' \in SUBSET (Brokers \X Ips) /\ cooling' \in SUBSET (Brokers \X Ips)
BY DEF TypeOK, Close

\* The new IP's row is released.
LEMMA CleanUpTyped ==
    ASSUME TypeOK, NEW t \in Tasks, local[t].new \in Ips, CleanUpNewIp(t)
    PROVE  ips' \in [Ips -> IpRow] /\ cloud' \in [Ips -> IpStatuses]
<1> DEFINE f == local[t]
<1>1. f \in Frame
      BY DEF TypeOK
<1>2. f.newView \in IpRow /\ ips[f.new] \in IpRow
      BY <1>1 DEF Frame, TypeOK
<1>3. [status |-> "released", inst |-> None] \in IpRow /\ "released" \in IpStatuses
      BY DEF IpRow, IpStatuses
<1>4. Flush(ips[f.new], f.newView, [status |-> "released", inst |-> None]) \in IpRow
      BY <1>2, <1>3, FlushTyped
<1>5. ips' = [ips EXCEPT ![f.new] =
                Flush(ips[f.new], f.newView, [status |-> "released", inst |-> None])]
      BY DEF CleanUpNewIp
<1> HIDE DEF f
<1>6. cloud' = Provide(f.new, "released") /\ f.new \in Ips
      BY DEF CleanUpNewIp, f
<1> QED
    BY <1>3, <1>4, <1>5, <1>6, IpsTyped, ProvideTyped

\* The old assignment's status is set, or is what it should be.
LEMMA SetOldEffect ==
    ASSUME TypeOK, NEW t \in Tasks, NEW status \in {"active", "draining", "released"}
    PROVE  /\ SetOld(t, status) \in Seq(Assignment)
           /\ DOMAIN SetOld(t, status) = DOMAIN assignments
           /\ \A a \in DOMAIN assignments :
                 /\ SetOld(t, status)[a].broker = assignments[a].broker
                 /\ SetOld(t, status)[a].ip = assignments[a].ip
                 /\ SetOld(t, status)[a].status =
                       IF local[t].loaded # status /\ a \in local[t].asgs THEN status
                       ELSE assignments[a].status
<1>1. assignments \in Seq(Assignment)
      BY DEF TypeOK
<1>2. CASE local[t].loaded = status
      BY <1>1, <1>2 DEF SetOld
<1>3. CASE local[t].loaded # status
      BY <1>1, <1>3, MarkAllEffect DEF SetOld
<1> QED
    BY <1>2, <1>3

\* A request that starts.
LEMMA BeginEffect ==
    ASSUME TypeOK, NEW t \in Tasks, NEW f \in Frame, Begin(t, f)
    PROVE  /\ TypeOK'
           /\ local'[t] = f
           /\ pc'[t] = CASE f.op = "rotate"   -> "read"
                         [] f.op = "allocate" -> "call"
                         [] OTHER             -> "check"
           /\ \A u \in Tasks \ {t} : pc'[u] = pc[u] /\ local'[u] = local[u]
           /\ \A k \in Keys : lock'[k] = IF k \in LocksOf(f) THEN t ELSE lock[k]
           /\ \A k \in LocksOf(f) : lock[k] = None
           /\ UNCHANGED <<rows, cloud, instances, orders, faults>>
<1> DEFINE where == CASE f.op = "rotate"   -> "read"
                      [] f.op = "allocate" -> "call"
                      [] OTHER             -> "check"
<1>1. where \in Pcs
      BY DEF Pcs, Rotating
<1>2. Goto(t, where)
      BY DEF Begin
<1> HIDE DEF where
<1>3. pc' \in [Tasks -> Pcs] /\ pc'[t] = where /\ \A u \in Tasks \ {t} : pc'[u] = pc[u]
      BY <1>1, <1>2, GotoEffect
<1>4. /\ local' \in [Tasks -> Frame] /\ local'[t] = f
      /\ \A u \in Tasks \ {t} : local'[u] = local[u]
      BY FrameEffect DEF Begin
<1>5. /\ lock' = [k \in Keys |-> IF k \in LocksOf(f) THEN t ELSE lock[k]]
      /\ \A k \in LocksOf(f) : lock[k] = None
      BY DEF Begin, TakeLocks
<1>6. lock' \in [Keys -> Tasks \cup {None, Lost}]
      BY <1>5 DEF TypeOK
<1>7. UNCHANGED <<rows, cloud, instances, orders, faults>>
      BY DEF Begin
<1>8. TypeOK'
      BY <1>3, <1>4, <1>6, <1>7 DEF TypeOK, rows
<1> QED
    BY <1>3, <1>4, <1>5, <1>7, <1>8 DEF where

-----------------------------------------------------------------------------
(* What becomes of a frame at each step that loads something.              *)

\* A frame with another row, another new row or other assignments.
LEMMA FieldKept ==
    ASSUME NEW f \in Frame
    PROVE  /\ \A v \in IpRow : LET g == [f EXCEPT !.view = v] IN
                 /\ g.view = v /\ g.op = f.op /\ g.b = f.b /\ g.i = f.i /\ g.n = f.n
                 /\ g.asgs = f.asgs /\ g.new = f.new /\ g.newView = f.newView
           /\ \A v \in IpRow : LET g == [f EXCEPT !.newView = v] IN
                 /\ g.newView = v /\ g.op = f.op /\ g.b = f.b /\ g.i = f.i
                 /\ g.asgs = f.asgs /\ g.new = f.new
           /\ \A A \in SUBSET Nat : LET g == [f EXCEPT !.asgs = A] IN
                 /\ g.asgs = A /\ g.op = f.op /\ g.b = f.b /\ g.i = f.i /\ g.n = f.n
                 /\ g.new = f.new /\ g.view = f.view
           /\ \A i \in Ips : LET g == [f EXCEPT !.i = i] IN
                 /\ g.i = i /\ g.op = f.op /\ g.b = f.b /\ g.asgs = f.asgs /\ g.new = f.new
           /\ \A i \in Ips : LET g == [f EXCEPT !.new = i] IN
                 /\ g.new = i /\ g.op = f.op /\ g.b = f.b /\ g.i = f.i /\ g.asgs = f.asgs
           /\ \A n \in Instances \cup {None} : LET g == [f EXCEPT !.n = n] IN
                 /\ g.n = n /\ g.op = f.op /\ g.b = f.b /\ g.i = f.i
                 /\ g.asgs = f.asgs /\ g.new = f.new
           /\ \A l \in {"active", "draining", "released"} :
                 LET g == [f EXCEPT !.loaded = l] IN
                 /\ g.loaded = l /\ g.op = f.op /\ g.b = f.b /\ g.i = f.i /\ g.asgs = f.asgs
                 /\ g.new = f.new /\ g.newView = f.newView
<1>1. ASSUME NEW v \in IpRow
      PROVE  LET g == [f EXCEPT !.view = v] IN
             /\ g.view = v /\ g.op = f.op /\ g.b = f.b /\ g.i = f.i /\ g.n = f.n
             /\ g.asgs = f.asgs /\ g.new = f.new /\ g.newView = f.newView
      BY DEF Frame
<1>2. ASSUME NEW v \in IpRow
      PROVE  LET g == [f EXCEPT !.newView = v] IN
             /\ g.newView = v /\ g.op = f.op /\ g.b = f.b /\ g.i = f.i
             /\ g.asgs = f.asgs /\ g.new = f.new
      BY DEF Frame
<1>3. ASSUME NEW A \in SUBSET Nat
      PROVE  LET g == [f EXCEPT !.asgs = A] IN
             /\ g.asgs = A /\ g.op = f.op /\ g.b = f.b /\ g.i = f.i /\ g.n = f.n
             /\ g.new = f.new /\ g.view = f.view
      BY DEF Frame
<1>4. ASSUME NEW i \in Ips
      PROVE  LET g == [f EXCEPT !.i = i] IN
             /\ g.i = i /\ g.op = f.op /\ g.b = f.b /\ g.asgs = f.asgs /\ g.new = f.new
      BY DEF Frame
<1>5. ASSUME NEW i \in Ips
      PROVE  LET g == [f EXCEPT !.new = i] IN
             /\ g.new = i /\ g.op = f.op /\ g.b = f.b /\ g.i = f.i /\ g.asgs = f.asgs
      BY DEF Frame
<1>6. ASSUME NEW n \in Instances \cup {None}
      PROVE  LET g == [f EXCEPT !.n = n] IN
             /\ g.n = n /\ g.op = f.op /\ g.b = f.b /\ g.i = f.i
             /\ g.asgs = f.asgs /\ g.new = f.new
      BY DEF Frame
<1>7. ASSUME NEW l \in {"active", "draining", "released"}
      PROVE  LET g == [f EXCEPT !.loaded = l] IN
             /\ g.loaded = l /\ g.op = f.op /\ g.b = f.b /\ g.i = f.i /\ g.asgs = f.asgs
             /\ g.new = f.new /\ g.newView = f.newView
      BY DEF Frame
<1> QED
    BY <1>1, <1>2, <1>3, <1>4, <1>5, <1>6, <1>7

\* The checks of an operation load the IP's row and, for a release, the
\* assignments of the IP.
LEMMA CheckEffect ==
    ASSUME FrameInv, NEW t \in Tasks, Check(t)
    PROVE  LET f == local[t] g == local'[t] IN
           /\ local' \in [Tasks -> Frame] /\ pc' \in [Tasks -> Pcs]
           /\ \A u \in Tasks \ {t} : pc'[u] = pc[u] /\ local'[u] = local[u]
           /\ pc[t] = "check" /\ pc'[t] = IF f.op = "assign" THEN "commit" ELSE "call"
           /\ f.op \in IpOps /\ f.i \in Ips
           /\ g.op = f.op /\ g.b = f.b /\ g.i = f.i /\ g.n = f.n
           /\ g.view = ips[f.i]
           /\ g.asgs = IF f.op = "release" THEN ActiveOn(f.i) ELSE {}
           /\ UNCHANGED <<rows, cloud, instances, orders, lock, faults>>
<1> DEFINE f     == local[t]
           A     == IF f.op = "release" THEN ActiveOn(f.i) ELSE {}
           g1    == [f EXCEPT !.view = ips[f.i]]
           g     == [g1 EXCEPT !.asgs = A]
           where == IF f.op = "assign" THEN "commit" ELSE "call"
<1>1. /\ pc[t] = "check" /\ Goto(t, where)
      /\ UNCHANGED <<rows, cloud, instances, orders, lock, faults>>
      BY DEF Check
<1>2. f \in Frame /\ FrameOK(t)
      BY DEF FrameInv, FramesOK, TypeOK
<1>3. f.op \in IpOps /\ f.i \in Ips
      BY <1>1, <1>2 DEF FrameOK
<1>4. ips[f.i] \in IpRow
      BY <1>3 DEF FrameInv, TypeOK
<1>5. A \in SUBSET Nat
      BY DEF FrameInv, TypeOK, ActiveOn
<1>6. local' = [local EXCEPT ![t] = g]
      BY DEF Check
<1>7. pc' \in [Tasks -> Pcs] /\ pc'[t] = where /\ \A u \in Tasks \ {t} : pc'[u] = pc[u]
      BY <1>1, GotoEffect DEF FrameInv, Pcs
<1> HIDE DEF f, A, g1, g, where
<1>8. /\ g1 \in Frame
      /\ g1.view = ips[f.i] /\ g1.op = f.op /\ g1.b = f.b /\ g1.i = f.i /\ g1.n = f.n
      BY <1>2, <1>4, FieldTyped, FieldKept, ZenonT(30) DEF g1
<1>9. /\ g \in Frame
      /\ g.asgs = A /\ g.view = ips[f.i] /\ g.op = f.op /\ g.b = f.b /\ g.i = f.i /\ g.n = f.n
      BY <1>5, <1>8, FieldTyped, FieldKept, ZenonT(30) DEF g
<1>10. /\ local' \in [Tasks -> Frame] /\ local'[t] = g
       /\ \A u \in Tasks \ {t} : local'[u] = local[u]
       BY <1>6, <1>9, FrameEffect DEF FrameInv
<1> QED
    BY <1>1, <1>3, <1>7, <1>9, <1>10 DEF f, A, where

\* A rotation loads an active assignment of its broker, and the IP of that.
LEMMA ReadEffect ==
    ASSUME FrameInv, NEW t \in Tasks, ReadAssignment(t)
    PROVE  \E a \in ActiveOf(local[t].b) :
              LET f == local[t] g == local'[t] IN
              /\ local' \in [Tasks -> Frame] /\ pc' \in [Tasks -> Pcs]
              /\ \A u \in Tasks \ {t} : pc'[u] = pc[u] /\ local'[u] = local[u]
              /\ pc[t] = "read" /\ pc'[t] = "create"
              /\ g.op = f.op /\ g.b = f.b /\ g.new = f.new
              /\ g.asgs = {a} /\ g.i = assignments[a].ip
              /\ UNCHANGED <<rows, cloud, instances, orders, lock, faults>>
<1>1. PICK a \in ActiveOf(local[t].b) :
         local' = [local EXCEPT ![t].asgs = {a},
                                ![t].i = assignments[a].ip,
                                ![t].n = ips[assignments[a].ip].inst]
      BY DEF ReadAssignment
<1> DEFINE f  == local[t]
           i  == assignments[a].ip
           n  == ips[i].inst
           g1 == [f EXCEPT !.asgs = {a}]
           g2 == [g1 EXCEPT !.i = i]
           g  == [g2 EXCEPT !.n = n]
<1>2. /\ pc[t] = "read" /\ Goto(t, "create")
      /\ UNCHANGED <<rows, cloud, instances, orders, lock, faults>>
      BY DEF ReadAssignment
<1>3. pc' \in [Tasks -> Pcs] /\ pc'[t] = "create" /\ \A u \in Tasks \ {t} : pc'[u] = pc[u]
      BY <1>2, GotoEffect DEF FrameInv, Pcs, Rotating
<1>4. a \in DOMAIN assignments /\ a \in Nat /\ assignments[a] \in Assignment /\ f \in Frame
      BY DEF FrameInv, TypeOK, ActiveOf
<1>5. i \in Ips /\ {a} \in SUBSET Nat
      BY <1>4 DEF Assignment
<1>6. n \in Instances \cup {None}
      BY <1>5 DEF FrameInv, TypeOK, IpRow
<1>7. local' = [local EXCEPT ![t] = g]
      BY <1>1
<1> HIDE DEF f, i, n, g1, g2, g
<1>8. g1 \in Frame /\ g1.asgs = {a} /\ g1.op = f.op /\ g1.b = f.b /\ g1.new = f.new
      BY <1>4, <1>5, FieldTyped, FieldKept, ZenonT(30) DEF g1
<1>9. /\ g2 \in Frame /\ g2.asgs = {a} /\ g2.i = i
      /\ g2.op = f.op /\ g2.b = f.b /\ g2.new = f.new
      BY <1>5, <1>8, FieldTyped, FieldKept, ZenonT(30) DEF g2
<1>10. /\ g \in Frame /\ g.asgs = {a} /\ g.i = i
       /\ g.op = f.op /\ g.b = f.b /\ g.new = f.new
       BY <1>6, <1>9, FieldTyped, FieldKept, ZenonT(30) DEF g
<1>11. /\ local' \in [Tasks -> Frame] /\ local'[t] = g
       /\ \A u \in Tasks \ {t} : local'[u] = local[u]
       BY <1>7, <1>10, FrameEffect DEF FrameInv
<1> QED
    BY <1>2, <1>3, <1>10, <1>11 DEF f, i

\* A rotation gets a new IP and loads the old rows again.
LEMMA CreateEffect ==
    ASSUME FrameInv, NEW t \in Tasks, CreateNewIp(t)
    PROVE  \E i \in Ips :
              LET f == local[t] g == local'[t] IN
              /\ Unused(i)
              /\ ips' = [ips EXCEPT ![i] = [status |-> "allocated", inst |-> None]]
              /\ cloud' = Provide(i, "allocated")
              /\ local' \in [Tasks -> Frame] /\ pc' \in [Tasks -> Pcs]
              /\ \A u \in Tasks \ {t} : pc'[u] = pc[u] /\ local'[u] = local[u]
              /\ pc[t] = "create" /\ pc'[t] = "rehost"
              /\ g.op = f.op /\ g.b = f.b /\ g.i = f.i /\ g.asgs = f.asgs
              /\ g.new = i /\ g.newView.status = "allocated"
              /\ UNCHANGED <<assignments, open, cooling, instances, orders, lock, faults>>
<1> DEFINE f     == local[t]
           fresh == [status |-> "allocated", inst |-> None]
           l     == assignments[CHOOSE a \in f.asgs : TRUE].status
<1>1. PICK i \in Ips :
         /\ Unused(i)
         /\ cloud' = Provide(i, "allocated")
         /\ ips' = [ips EXCEPT ![i] = fresh]
         /\ local' = [local EXCEPT ![t].new = i, ![t].newView = fresh,
                                   ![t].view = ips[f.i], ![t].loaded = l]
      BY DEF CreateNewIp
<1> DEFINE g1 == [f EXCEPT !.new = i]
           g2 == [g1 EXCEPT !.newView = fresh]
           g3 == [g2 EXCEPT !.view = ips[f.i]]
           g  == [g3 EXCEPT !.loaded = l]
<1>2. /\ pc[t] = "create" /\ Goto(t, "rehost")
      /\ UNCHANGED <<assignments, open, cooling, instances, orders, lock, faults>>
      BY DEF CreateNewIp
<1>3. pc' \in [Tasks -> Pcs] /\ pc'[t] = "rehost" /\ \A u \in Tasks \ {t} : pc'[u] = pc[u]
      BY <1>2, GotoEffect DEF FrameInv, Pcs, Rotating
<1>4. f \in Frame /\ FrameOK(t)
      BY DEF FrameInv, FramesOK, TypeOK
<1>5. PICK a \in DOMAIN assignments : f.asgs = {a} /\ assignments[a].ip = f.i
      BY <1>2, <1>4 DEF FrameOK, Chosen, Rotating
<1>6. assignments[a] \in Assignment
      BY DEF FrameInv, TypeOK
<1>7. l \in {"active", "draining", "released"}
  <2>1. (CHOOSE c \in f.asgs : TRUE) = a
        BY <1>5
  <2> QED
      BY <1>6, <2>1 DEF Assignment
<1>8. ips[f.i] \in IpRow /\ fresh \in IpRow /\ fresh.status = "allocated"
      BY <1>5, <1>6 DEF Assignment, FrameInv, TypeOK, IpRow, IpStatuses
<1> HIDE DEF fresh, l
<1>9. local' = [local EXCEPT ![t] = g]
      BY <1>1
<1> HIDE DEF f, g1, g2, g3, g
<1>10. g1 \in Frame /\ g1.new = i /\ g1.op = f.op /\ g1.b = f.b /\ g1.i = f.i /\ g1.asgs = f.asgs
       BY <1>4, FieldTyped, FieldKept, ZenonT(30) DEF g1
<1>11. /\ g2 \in Frame /\ g2.new = i /\ g2.newView = fresh
       /\ g2.op = f.op /\ g2.b = f.b /\ g2.i = f.i /\ g2.asgs = f.asgs
       BY <1>8, <1>10, FieldTyped, FieldKept, ZenonT(30) DEF g2
<1>12. /\ g3 \in Frame /\ g3.new = i /\ g3.newView = fresh
       /\ g3.op = f.op /\ g3.b = f.b /\ g3.i = f.i /\ g3.asgs = f.asgs
       BY <1>8, <1>11, FieldTyped, FieldKept, ZenonT(30) DEF g3
<1>13. /\ g \in Frame /\ g.new = i /\ g.newView = fresh
       /\ g.op = f.op /\ g.b = f.b /\ g.i = f.i /\ g.asgs = f.asgs
       BY <1>7, <1>12, FieldTyped, FieldKept, ZenonT(30) DEF g
<1>14. /\ local' \in [Tasks -> Frame] /\ local'[t] = g
       /\ \A u \in Tasks \ {t} : local'[u] = local[u]
       BY <1>9, <1>13, FrameEffect DEF FrameInv
<1>15. /\ local'[t].op = f.op /\ local'[t].b = f.b /\ local'[t].i = f.i
       /\ local'[t].asgs = f.asgs /\ local'[t].new = i
       /\ local'[t].newView.status = "allocated"
       BY <1>8, <1>13, <1>14
<1>16. ips' = [ips EXCEPT ![i] = [status |-> "allocated", inst |-> None]]
       BY <1>1 DEF fresh
<1> QED
    BY <1>1, <1>2, <1>3, <1>14, <1>15, <1>16 DEF f

-----------------------------------------------------------------------------
(* FrameInv is kept.                                                       *)

\* A step changes one frame; the others stay right as long as no assignment
\* disappears or changes hands.
LEMMA OthersKept ==
    ASSUME FrameInv, NEW t \in Tasks, TypeOK', FrameOK(t)',
           \A u \in Tasks \ {t} : pc'[u] = pc[u] /\ local'[u] = local[u],
           DOMAIN assignments \subseteq DOMAIN assignments',
           \A a \in DOMAIN assignments : /\ assignments'[a].broker = assignments[a].broker
                                         /\ assignments'[a].ip = assignments[a].ip
    PROVE  FrameInv'
<1>1. ASSUME NEW u \in Tasks \ {t}
      PROVE  FrameOK(u)'
  <2>1. pc'[u] = pc[u] /\ local'[u] = local[u] /\ FrameOK(u)
        BY DEF FrameInv, FramesOK
  <2>2. pc[u] \in Chosen =>
          \E a \in DOMAIN assignments' :
             /\ local[u].asgs = {a}
             /\ assignments'[a].broker = local[u].b /\ assignments'[a].ip = local[u].i
        BY <2>1 DEF FrameOK
  <2> QED
      BY <2>1, <2>2 DEF FrameOK
<1> QED
    BY <1>1 DEF FrameInv, FramesOK

\* A request returns.
LEMMA ReturnStep ==
    ASSUME FrameInv, NEW t \in Tasks, Return(t),
           ips' \in [Ips -> IpRow], cloud' \in [Ips -> IpStatuses],
           assignments' \in Seq(Assignment),
           open' \in SUBSET (Brokers \X Ips), cooling' \in SUBSET (Brokers \X Ips),
           faults' \in 0..MaxFaults, UNCHANGED <<instances, orders>>,
           DOMAIN assignments \subseteq DOMAIN assignments',
           \A a \in DOMAIN assignments : /\ assignments'[a].broker = assignments[a].broker
                                         /\ assignments'[a].ip = assignments[a].ip
    PROVE  FrameInv'
<1>1. /\ pc' \in [Tasks -> Pcs] /\ pc'[t] = "idle"
      /\ local' \in [Tasks -> Frame] /\ local'[t] = IdleFrame
      /\ lock' \in [Keys -> Tasks \cup {None, Lost}]
      /\ \A u \in Tasks \ {t} : pc'[u] = pc[u] /\ local'[u] = local[u]
      BY ReturnEffect DEF FrameInv
<1>2. TypeOK'
      BY <1>1 DEF FrameInv, TypeOK
<1>3. FrameOK(t)'
  <2>1. IdleFrame.asgs = {}
        BY DEF IdleFrame, Asking
  <2> QED
      BY <1>1, <2>1 DEF FrameOK, Rotating, Chosen, Created, Marked
<1> QED
    BY <1>1, <1>2, <1>3, OthersKept

\* A request returns and has changed nothing.
LEMMA NothingStep ==
    ASSUME FrameInv, NEW t \in Tasks, Return(t), faults' \in 0..MaxFaults,
           UNCHANGED <<rows, cloud, instances, orders>>
    PROVE  FrameInv'
BY ReturnStep DEF FrameInv, TypeOK, rows

\* A rotation goes on with the frame it has.
LEMMA GoesOn ==
    ASSUME FrameInv, NEW t \in Tasks, NEW where \in Created, Goto(t, where), pc[t] \in Created,
           where \in Marked => local[t].loaded = "draining", faults' \in 0..MaxFaults,
           UNCHANGED <<rows, cloud, instances, orders, lock, local>>
    PROVE  FrameInv'
<1>1. where \in Pcs /\ where \in Rotating /\ where \in Chosen
      BY DEF Created, Chosen, Pcs
<1>2. pc' \in [Tasks -> Pcs] /\ pc'[t] = where /\ \A u \in Tasks \ {t} : pc'[u] = pc[u]
      BY <1>1, GotoEffect DEF FrameInv
<1>3. TypeOK'
      BY <1>2 DEF FrameInv, TypeOK, rows
<1>4. FrameOK(t)
      BY DEF FrameInv, FramesOK
<1>5. /\ pc[t] \in Rotating /\ pc[t] \in Chosen
      /\ where \notin {"idle", "check", "call", "commit", "read", "create"}
      BY DEF Created, Chosen, Rotating
<1>6. FrameOK(t)'
      BY <1>1, <1>2, <1>4, <1>5 DEF FrameOK, rows
<1> QED
    BY <1>2, <1>3, <1>6, OthersKept DEF rows

\* A request starts.
LEMMA BeginStep ==
    ASSUME FrameInv, NEW t \in Tasks, Request(t)
    PROVE  FrameInv'
<1>1. PICK f \in Frame :
         /\ Begin(t, f)
         /\ f.asgs = {} /\ f.new = None
         /\ \/ /\ f.op \in IpOps \cup {"allocate"} /\ f.i \in Ips
               /\ f.op = "assign" => f.b \in Brokers
               /\ f.op = "attach" => f.n \in Instances
            \/ f.op = "rotate" /\ f.b \in Brokers
      BY RequestEffect
<1>2. /\ TypeOK' /\ local'[t] = f
      /\ pc'[t] = CASE f.op = "rotate"   -> "read"
                    [] f.op = "allocate" -> "call"
                    [] OTHER             -> "check"
      /\ \A u \in Tasks \ {t} : pc'[u] = pc[u] /\ local'[u] = local[u]
      /\ UNCHANGED <<rows, cloud, instances, orders, faults>>
      BY <1>1, BeginEffect DEF FrameInv
<1>3. FrameOK(t)'
  <2>1. CASE f.op = "rotate"
    <3>1. pc'[t] = "read" /\ f.op = "rotate" /\ f.b \in Brokers
          BY <1>1, <1>2, <2>1 DEF IpOps
    <3>2. "read" \notin Chosen /\ "read" \notin Created /\ "read" \notin Marked
          BY DEF Chosen, Created, Marked
    <3> QED
        BY <1>1, <1>2, <3>1, <3>2 DEF FrameOK
  <2>2. CASE f.op = "allocate"
        BY <1>1, <1>2, <2>2 DEF FrameOK, Rotating, Chosen, Created, Marked
  <2>3. CASE f.op \in IpOps
        BY <1>1, <1>2, <2>3 DEF FrameOK, Rotating, Chosen, Created, Marked, IpOps
  <2> QED
      BY <1>1, <2>1, <2>2, <2>3
<1> QED
    BY <1>2, <1>3, OthersKept DEF rows

\* An operation's checks pass.
LEMMA CheckStep ==
    ASSUME FrameInv, NEW t \in Tasks, Check(t)
    PROVE  FrameInv'
<1> DEFINE f == local[t]
           g == local'[t]
<1>1. /\ local' \in [Tasks -> Frame] /\ pc' \in [Tasks -> Pcs]
      /\ \A u \in Tasks \ {t} : pc'[u] = pc[u] /\ local'[u] = local[u]
      /\ pc[t] = "check" /\ pc'[t] = IF f.op = "assign" THEN "commit" ELSE "call"
      /\ f.op \in IpOps /\ f.i \in Ips
      /\ g.op = f.op /\ g.b = f.b /\ g.i = f.i /\ g.n = f.n
      /\ g.asgs = IF f.op = "release" THEN ActiveOn(f.i) ELSE {}
      /\ UNCHANGED <<rows, cloud, instances, orders, lock, faults>>
      BY CheckEffect
<1>2. TypeOK'
      BY <1>1 DEF FrameInv, TypeOK, rows
<1>3. FrameOK(t)
      BY DEF FrameInv, FramesOK
<1>4. g.asgs \subseteq DOMAIN assignments'
      BY <1>1 DEF ActiveOn, rows
<1>5. pc'[t] \in {"call", "commit"} /\ pc'[t] \notin Rotating
      BY <1>1 DEF Rotating
<1>6. f.op # "allocate"
      BY <1>1 DEF IpOps
<1> HIDE DEF f
<1>7. FrameOK(t)'
      BY <1>1, <1>3, <1>4, <1>5, <1>6 DEF FrameOK, Chosen, Created, Marked, f, Rotating
<1> QED
    BY <1>1, <1>2, <1>7, OthersKept DEF rows

\* The provider does what it is asked.
LEMMA CallStep ==
    ASSUME FrameInv, NEW t \in Tasks, Call(t)
    PROVE  FrameInv'
<1>1. /\ pc[t] = "call" /\ Goto(t, "commit") /\ cloud' = Provide(local[t].i, Provided(local[t].op))
      /\ UNCHANGED <<rows, instances, orders, lock, local, faults>>
      BY DEF Call
<1>2. FrameOK(t)
      BY DEF FrameInv, FramesOK
<1>3. /\ local[t].i \in Ips /\ local[t].op \in {"allocate", "attach", "detach", "release"}
      BY <1>1, <1>2 DEF FrameOK, IpOps
<1>4. Provided(local[t].op) \in IpStatuses
      BY <1>3 DEF Provided, IpStatuses
<1>5. cloud' \in [Ips -> IpStatuses]
      BY <1>1, <1>3, <1>4, ProvideTyped DEF FrameInv
<1>6. pc' \in [Tasks -> Pcs] /\ pc'[t] = "commit" /\ \A u \in Tasks \ {t} : pc'[u] = pc[u]
      BY <1>1, GotoEffect DEF FrameInv, Pcs
<1>7. TypeOK'
      BY <1>1, <1>5, <1>6 DEF FrameInv, TypeOK, rows
<1>8. FrameOK(t)'
      BY <1>1, <1>2, <1>6 DEF FrameOK, rows, Rotating, Chosen, Created, Marked
<1> QED
    BY <1>1, <1>6, <1>7, <1>8, OthersKept DEF rows

\* An operation commits its IP's row, and the assignments it is about.
LEMMA CommitEffect ==
    ASSUME FrameInv, NEW t \in Tasks, Commit(t)
    PROVE  LET f == local[t] IN
           /\ pc[t] = "commit" /\ f \in Frame /\ f.i \in Ips
           /\ f.op \in IpOps \cup {"allocate"}
           /\ f.op = "assign" => f.b \in Brokers
           /\ f.op = "attach" => f.n \in Instances
           /\ ips' = [ips EXCEPT ![f.i] = Flush(ips[f.i], f.view, Changed(f))]
           /\ ips' \in [Ips -> IpRow]
           /\ f.op = "assign" => assignments' = Add(assignments, f.b, f.i)
           /\ f.op # "assign" => assignments' = MarkAll(assignments, f.asgs, "released")
           /\ assignments' \in Seq(Assignment)
           /\ DOMAIN assignments \subseteq DOMAIN assignments'
           /\ \A a \in DOMAIN assignments : /\ assignments'[a].broker = assignments[a].broker
                                            /\ assignments'[a].ip = assignments[a].ip
           /\ open' \in SUBSET (Brokers \X Ips) /\ cooling' \in SUBSET (Brokers \X Ips)
           /\ Return(t) /\ UNCHANGED <<cloud, instances, orders, faults>>
<1> DEFINE f == local[t]
<1>1. /\ pc[t] = "commit" /\ Return(t) /\ UNCHANGED <<cloud, instances, orders, faults>>
      /\ ips' = [ips EXCEPT ![f.i] = Flush(ips[f.i], f.view, Changed(f))]
      /\ f.op = "assign" => /\ assignments' = Add(assignments, f.b, f.i)
                            /\ open' = open \cup {<<f.b, f.i>>} /\ cooling' = cooling
      /\ f.op # "assign" => /\ assignments' = MarkAll(assignments, f.asgs, "released")
                            /\ Close({PairOf(a) : a \in f.asgs})
      BY DEF Commit, Loaded
<1>2. f \in Frame /\ FrameOK(t) /\ assignments \in Seq(Assignment)
      BY DEF FrameInv, FramesOK, TypeOK
<1>3. /\ f.op \in IpOps \cup {"allocate"} /\ f.i \in Ips
      /\ f.op = "assign" => f.b \in Brokers
      /\ f.op = "attach" => f.n \in Instances
      BY <1>1, <1>2 DEF FrameOK
<1> HIDE DEF f
<1>4. f.view \in IpRow /\ ips[f.i] \in IpRow
      BY <1>2, <1>3 DEF Frame, FrameInv, TypeOK
<1>5. Changed(f) \in IpRow
      BY <1>2, <1>3, ChangedTyped
<1>6. Flush(ips[f.i], f.view, Changed(f)) \in IpRow
      BY <1>4, <1>5, FlushTyped
<1>7. ips' \in [Ips -> IpRow]
      BY <1>1, <1>3, <1>6, IpsTyped DEF FrameInv
<1>8. /\ assignments' \in Seq(Assignment)
      /\ DOMAIN assignments \subseteq DOMAIN assignments'
      /\ \A a \in DOMAIN assignments : /\ assignments'[a].broker = assignments[a].broker
                                       /\ assignments'[a].ip = assignments[a].ip
  <2>1. CASE f.op = "assign"
    <3>1. f.b \in Brokers /\ f.i \in Ips /\ assignments' = Add(assignments, f.b, f.i)
          BY <1>1, <1>3, <2>1
    <3>2. /\ Add(assignments, f.b, f.i) \in Seq(Assignment)
          /\ DOMAIN assignments \subseteq DOMAIN Add(assignments, f.b, f.i)
          /\ \A a \in DOMAIN assignments : Add(assignments, f.b, f.i)[a] = assignments[a]
          BY <1>2, <3>1, AddEffect, Zenon
    <3> QED
        BY <3>1, <3>2
  <2>2. CASE f.op # "assign"
    <3>1. assignments' = MarkAll(assignments, f.asgs, "released")
          BY <1>1, <2>2
    <3>2. /\ MarkAll(assignments, f.asgs, "released") \in Seq(Assignment)
          /\ DOMAIN MarkAll(assignments, f.asgs, "released") = DOMAIN assignments
          /\ \A a \in DOMAIN assignments :
                /\ MarkAll(assignments, f.asgs, "released")[a].broker = assignments[a].broker
                /\ MarkAll(assignments, f.asgs, "released")[a].ip = assignments[a].ip
          BY <1>2, MarkAllEffect
    <3> QED
        BY <3>1, <3>2
  <2> QED
      BY <2>1, <2>2
<1>9. open' \in SUBSET (Brokers \X Ips) /\ cooling' \in SUBSET (Brokers \X Ips)
  <2>1. CASE f.op = "assign"
        BY <1>1, <1>3, <2>1 DEF FrameInv, TypeOK
  <2>2. CASE f.op # "assign"
        BY <1>1, <2>2, CloseTyped DEF FrameInv
  <2> QED
      BY <2>1, <2>2
<1> QED
    BY <1>1, <1>2, <1>3, <1>7, <1>8, <1>9 DEF f

\* An operation commits.
LEMMA CommitStep ==
    ASSUME FrameInv, NEW t \in Tasks, Commit(t)
    PROVE  FrameInv'
<1>1. cloud \in [Ips -> IpStatuses] /\ faults \in 0..MaxFaults
      BY DEF FrameInv, TypeOK
<1> QED
    BY <1>1, CommitEffect, ReturnStep

\* A rotation has found its assignment.
LEMMA ReadStep ==
    ASSUME FrameInv, NEW t \in Tasks, ReadAssignment(t)
    PROVE  FrameInv'
<1> DEFINE f == local[t]
           g == local'[t]
<1>1. PICK a \in ActiveOf(f.b) :
         /\ local' \in [Tasks -> Frame] /\ pc' \in [Tasks -> Pcs]
         /\ \A u \in Tasks \ {t} : pc'[u] = pc[u] /\ local'[u] = local[u]
         /\ pc[t] = "read" /\ pc'[t] = "create"
         /\ g.op = f.op /\ g.b = f.b /\ g.new = f.new
         /\ g.asgs = {a} /\ g.i = assignments[a].ip
         /\ UNCHANGED <<rows, cloud, instances, orders, lock, faults>>
      BY ReadEffect
<1>2. TypeOK'
      BY <1>1 DEF FrameInv, TypeOK, rows
<1>3. f.op = "rotate" /\ f.b \in Brokers /\ f.new = None
      BY <1>1 DEF FrameInv, FramesOK, FrameOK, Rotating
<1>4. a \in DOMAIN assignments /\ assignments[a].broker = f.b
      BY <1>1 DEF ActiveOf
<1>5. "create" \notin Created /\ "create" \notin Marked
      BY DEF Created, Marked
<1> HIDE DEF f
<1>6. FrameOK(t)'
      BY <1>1, <1>3, <1>4, <1>5 DEF FrameOK, rows
<1> QED
    BY <1>1, <1>2, <1>6, OthersKept DEF rows

\* A rotation has its new IP.
LEMMA CreateStep ==
    ASSUME FrameInv, NEW t \in Tasks, CreateNewIp(t)
    PROVE  FrameInv'
<1> DEFINE f == local[t]
           g == local'[t]
<1>1. PICK i \in Ips :
         /\ ips' = [ips EXCEPT ![i] = [status |-> "allocated", inst |-> None]]
         /\ cloud' = Provide(i, "allocated")
         /\ local' \in [Tasks -> Frame] /\ pc' \in [Tasks -> Pcs]
         /\ \A u \in Tasks \ {t} : pc'[u] = pc[u] /\ local'[u] = local[u]
         /\ pc[t] = "create" /\ pc'[t] = "rehost"
         /\ g.op = f.op /\ g.b = f.b /\ g.i = f.i /\ g.asgs = f.asgs
         /\ g.new = i /\ g.newView.status = "allocated"
         /\ UNCHANGED <<assignments, open, cooling, instances, orders, lock, faults>>
      BY CreateEffect
<1>2. [status |-> "allocated", inst |-> None] \in IpRow /\ "allocated" \in IpStatuses
      BY DEF IpRow, IpStatuses
<1>3. ips' \in [Ips -> IpRow] /\ cloud' \in [Ips -> IpStatuses]
      BY <1>1, <1>2, IpsTyped, ProvideTyped DEF FrameInv
<1>4. TypeOK'
      BY <1>1, <1>3 DEF FrameInv, TypeOK
<1>5. FrameOK(t)
      BY DEF FrameInv, FramesOK
<1>6. /\ "rehost" \notin Marked /\ "create" \in Chosen /\ "create" \in Rotating
      /\ "rehost" \in Rotating
      BY DEF Marked, Chosen, Rotating
<1> HIDE DEF f
<1>7. FrameOK(t)'
      BY <1>1, <1>5, <1>6 DEF FrameOK, f
<1> QED
    BY <1>1, <1>4, <1>7, OthersKept

\* The new IP gets the instance of the old one, if that is there.
LEMMA RehostEffect ==
    ASSUME FrameInv, NEW t \in Tasks, Rehost(t)
    PROVE  LET f == local[t] g == local'[t] IN
           /\ pc[t] = "rehost" /\ pc'[t] = "markDraining"
           /\ f.new \in Ips
           /\ local' \in [Tasks -> Frame] /\ pc' \in [Tasks -> Pcs]
           /\ \A u \in Tasks \ {t} : pc'[u] = pc[u] /\ local'[u] = local[u]
           /\ g.op = f.op /\ g.b = f.b /\ g.i = f.i /\ g.asgs = f.asgs /\ g.new = f.new
           /\ g.newView.status = "attached" \/ g.newView.status = f.newView.status
           /\ ips' \in [Ips -> IpRow] /\ cloud' \in [Ips -> IpStatuses]
           /\ UNCHANGED <<assignments, open, cooling, instances, orders, lock, faults>>
<1> DEFINE f      == local[t]
           hosted == [status |-> "attached", inst |-> f.n]
           g      == [f EXCEPT !.newView = hosted]
<1>1. /\ pc[t] = "rehost" /\ Goto(t, "markDraining")
      /\ UNCHANGED <<assignments, open, cooling, instances, orders, lock, faults>>
      /\ \/ UNCHANGED <<ips, cloud, local>>
         \/ /\ cloud' = Provide(f.new, "attached")
            /\ ips' = [ips EXCEPT ![f.new] = Flush(ips[f.new], f.newView, hosted)]
            /\ local' = [local EXCEPT ![t].newView = hosted]
      BY DEF Rehost
<1>2. f \in Frame /\ FrameOK(t)
      BY DEF FrameInv, FramesOK, TypeOK
<1>3. f.new \in Ips /\ f.newView \in IpRow /\ f.n \in Instances \cup {None}
      BY <1>1, <1>2 DEF FrameOK, Created, Chosen, Rotating, Frame
<1>4. hosted \in IpRow /\ hosted.status = "attached" /\ "attached" \in IpStatuses
      BY <1>3 DEF IpRow, IpStatuses
<1>5. pc' \in [Tasks -> Pcs] /\ pc'[t] = "markDraining" /\ \A u \in Tasks \ {t} : pc'[u] = pc[u]
      BY <1>1, GotoEffect DEF FrameInv, Pcs, Rotating
<1> HIDE DEF hosted
<1>6. CASE UNCHANGED <<ips, cloud, local>>
      BY <1>1, <1>3, <1>5, <1>6 DEF FrameInv, TypeOK
<1>7. CASE /\ cloud' = Provide(f.new, "attached")
           /\ ips' = [ips EXCEPT ![f.new] = Flush(ips[f.new], f.newView, hosted)]
           /\ local' = [local EXCEPT ![t].newView = hosted]
  <2>1. local' = [local EXCEPT ![t] = g]
        BY <1>7
  <2>2. Flush(ips[f.new], f.newView, hosted) \in IpRow
        BY <1>3, <1>4, FlushTyped DEF FrameInv, TypeOK
  <2> HIDE DEF f, g
  <2>3. ips' \in [Ips -> IpRow] /\ cloud' \in [Ips -> IpStatuses]
        BY <1>3, <1>4, <1>7, <2>2, IpsTyped, ProvideTyped DEF FrameInv
  <2>4. /\ g \in Frame /\ g.newView = hosted /\ g.op = f.op /\ g.b = f.b /\ g.i = f.i
        /\ g.asgs = f.asgs /\ g.new = f.new
        BY <1>2, <1>4, FieldTyped, FieldKept, ZenonT(30) DEF g
  <2>5. /\ local' \in [Tasks -> Frame] /\ local'[t] = g
        /\ \A u \in Tasks \ {t} : local'[u] = local[u]
        BY <2>1, <2>4, FrameEffect DEF FrameInv
  <2> QED
      BY <1>1, <1>3, <1>4, <1>5, <2>3, <2>4, <2>5 DEF f
<1> QED
    BY <1>1, <1>6, <1>7

\* The new IP is on the old one's instance.
LEMMA RehostStep ==
    ASSUME FrameInv, NEW t \in Tasks, Rehost(t)
    PROVE  FrameInv'
<1> DEFINE f == local[t]
           g == local'[t]
<1>1. /\ pc[t] = "rehost" /\ pc'[t] = "markDraining"
      /\ local' \in [Tasks -> Frame] /\ pc' \in [Tasks -> Pcs]
      /\ \A u \in Tasks \ {t} : pc'[u] = pc[u] /\ local'[u] = local[u]
      /\ g.op = f.op /\ g.b = f.b /\ g.i = f.i /\ g.asgs = f.asgs /\ g.new = f.new
      /\ g.newView.status = "attached" \/ g.newView.status = f.newView.status
      /\ ips' \in [Ips -> IpRow] /\ cloud' \in [Ips -> IpStatuses]
      /\ UNCHANGED <<assignments, open, cooling, instances, orders, lock, faults>>
      BY RehostEffect
<1>2. TypeOK'
      BY <1>1 DEF FrameInv, TypeOK
<1>3. FrameOK(t)
      BY DEF FrameInv, FramesOK
<1>4. /\ "markDraining" \notin Marked /\ "rehost" \in Rotating /\ "markDraining" \in Rotating
      /\ "rehost" \in Chosen /\ "rehost" \in Created
      BY DEF Marked, Created, Chosen, Rotating
<1> HIDE DEF f
<1>5. FrameOK(t)'
      BY <1>1, <1>3, <1>4 DEF FrameOK, f
<1> QED
    BY <1>1, <1>2, <1>5, OthersKept

\* The old assignment drains.
LEMMA MarkDrainingEffect ==
    ASSUME FrameInv, NEW t \in Tasks, MarkDraining(t)
    PROVE  LET f == local[t] g == local'[t] IN
           /\ pc[t] = "markDraining" /\ pc'[t] = "drain"
           /\ assignments' = SetOld(t, "draining")
           /\ local' \in [Tasks -> Frame] /\ pc' \in [Tasks -> Pcs]
           /\ \A u \in Tasks \ {t} : pc'[u] = pc[u] /\ local'[u] = local[u]
           /\ g.op = f.op /\ g.b = f.b /\ g.i = f.i /\ g.asgs = f.asgs /\ g.new = f.new
           /\ g.newView = f.newView /\ g.loaded = "draining"
           /\ UNCHANGED <<ips, open, cooling, cloud, instances, orders, lock, faults>>
<1> DEFINE f == local[t]
           g == [f EXCEPT !.loaded = "draining"]
<1>1. /\ pc[t] = "markDraining" /\ Goto(t, "drain")
      /\ assignments' = SetOld(t, "draining")
      /\ local' = [local EXCEPT ![t] = g]
      /\ UNCHANGED <<ips, open, cooling, cloud, instances, orders, lock, faults>>
      BY DEF MarkDraining
<1>2. f \in Frame
      BY DEF FrameInv, TypeOK
<1>3. pc' \in [Tasks -> Pcs] /\ pc'[t] = "drain" /\ \A u \in Tasks \ {t} : pc'[u] = pc[u]
      BY <1>1, GotoEffect DEF FrameInv, Pcs, Rotating
<1> HIDE DEF f, g
<1>4. /\ g \in Frame /\ g.loaded = "draining" /\ g.op = f.op /\ g.b = f.b /\ g.i = f.i
      /\ g.asgs = f.asgs /\ g.new = f.new /\ g.newView = f.newView
      BY <1>2, FieldTyped, FieldKept, ZenonT(30) DEF g
<1>5. /\ local' \in [Tasks -> Frame] /\ local'[t] = g
      /\ \A u \in Tasks \ {t} : local'[u] = local[u]
      BY <1>1, <1>4, FrameEffect DEF FrameInv
<1> QED
    BY <1>1, <1>3, <1>4, <1>5 DEF f

\* The rotation waits for the orders in flight.
LEMMA MarkDrainingStep ==
    ASSUME FrameInv, NEW t \in Tasks, MarkDraining(t)
    PROVE  FrameInv'
<1> DEFINE f == local[t]
           g == local'[t]
<1>1. /\ pc[t] = "markDraining" /\ pc'[t] = "drain"
      /\ assignments' = SetOld(t, "draining")
      /\ local' \in [Tasks -> Frame] /\ pc' \in [Tasks -> Pcs]
      /\ \A u \in Tasks \ {t} : pc'[u] = pc[u] /\ local'[u] = local[u]
      /\ g.op = f.op /\ g.b = f.b /\ g.i = f.i /\ g.asgs = f.asgs /\ g.new = f.new
      /\ g.newView = f.newView /\ g.loaded = "draining"
      /\ UNCHANGED <<ips, open, cooling, cloud, instances, orders, lock, faults>>
      BY MarkDrainingEffect
<1>2. /\ assignments' \in Seq(Assignment) /\ DOMAIN assignments' = DOMAIN assignments
      /\ \A a \in DOMAIN assignments : /\ assignments'[a].broker = assignments[a].broker
                                       /\ assignments'[a].ip = assignments[a].ip
      BY <1>1, SetOldEffect DEF FrameInv
<1>3. TypeOK'
      BY <1>1, <1>2 DEF FrameInv, TypeOK
<1>4. FrameOK(t)
      BY DEF FrameInv, FramesOK
<1>5. /\ "markDraining" \in Rotating /\ "markDraining" \in Chosen /\ "markDraining" \in Created
      /\ "drain" \in Rotating
      BY DEF Created, Chosen, Rotating
<1> HIDE DEF f
<1>6. FrameOK(t)'
      BY <1>1, <1>2, <1>4, <1>5 DEF FrameOK, f
<1> QED
    BY <1>1, <1>2, <1>3, <1>6, OthersKept

\* The cutover releases the old assignment and adds the new one.
LEMMA CutoverEffect ==
    ASSUME FrameInv, NEW t \in Tasks, Cutover(t)
    PROVE  LET f == local[t] n == Len(assignments) + 1 IN
           /\ assignments' \in Seq(Assignment)
           /\ DOMAIN assignments' = DOMAIN assignments \cup {n}
           /\ n \in DOMAIN assignments' /\ n \notin DOMAIN assignments
           /\ \A x \in DOMAIN assignments :
                 /\ assignments'[x].broker = assignments[x].broker
                 /\ assignments'[x].ip = assignments[x].ip
                 /\ assignments'[x].status = IF x \in f.asgs THEN "released"
                                             ELSE assignments[x].status
           /\ assignments'[n] = [broker |-> f.b, ip |-> f.new, status |-> "active"]
<1> DEFINE f == local[t]
           n == Len(assignments) + 1
           s == SetOld(t, "released")
<1>1. pc[t] = "cutover" /\ assignments' = Add(s, f.b, f.new)
      BY DEF Cutover
<1>2. f.loaded = "draining" /\ f.b \in Brokers /\ f.new \in Ips
      BY <1>1 DEF FrameInv, FramesOK, FrameOK, Marked, Created, Chosen, Rotating
<1>3. /\ s \in Seq(Assignment) /\ DOMAIN s = DOMAIN assignments
      /\ \A x \in DOMAIN assignments :
            /\ s[x].broker = assignments[x].broker /\ s[x].ip = assignments[x].ip
            /\ s[x].status = IF f.loaded # "released" /\ x \in f.asgs THEN "released"
                             ELSE assignments[x].status
      BY SetOldEffect DEF FrameInv
<1>4. assignments \in Seq(Assignment)
      BY DEF FrameInv, TypeOK
<1> HIDE DEF f, s
<1>5. Len(s) = Len(assignments)
  <2>1. DOMAIN s = 1..Len(s) /\ DOMAIN assignments = 1..Len(assignments)
        BY <1>3, <1>4
  <2>2. Len(s) \in Nat /\ Len(assignments) \in Nat
        BY <1>3, <1>4
  <2>3. 1..Len(s) = 1..Len(assignments)
        BY <1>3, <2>1
  <2>4. \A k, m \in Nat : 1..k = 1..m => k = m
    <3> SUFFICES ASSUME NEW k \in Nat, NEW m \in Nat, 1..k = 1..m
                 PROVE  k = m
        OBVIOUS
    <3>1. \A x \in Nat : 1 <= x /\ x <= k <=> 1 <= x /\ x <= m
          OBVIOUS
    <3>2. k <= m
          BY <3>1
    <3>3. m <= k
          BY <3>1
    <3> QED
        BY <3>2, <3>3
  <2> QED
      BY <2>2, <2>3, <2>4
<1>6. /\ Add(s, f.b, f.new) \in Seq(Assignment)
      /\ DOMAIN Add(s, f.b, f.new) = DOMAIN s \cup {Len(s) + 1}
      /\ Len(s) + 1 \notin DOMAIN s
      /\ \A a \in DOMAIN s : Add(s, f.b, f.new)[a] = s[a]
      /\ Add(s, f.b, f.new)[Len(s) + 1] = [broker |-> f.b, ip |-> f.new, status |-> "active"]
      BY <1>2, <1>3, AddEffect, Zenon
<1>7. /\ assignments' \in Seq(Assignment)
      /\ DOMAIN assignments' = DOMAIN assignments \cup {n} /\ n \notin DOMAIN assignments
      /\ \A a \in DOMAIN assignments : assignments'[a] = s[a]
      /\ assignments'[n] = [broker |-> f.b, ip |-> f.new, status |-> "active"]
      BY <1>1, <1>3, <1>5, <1>6
<1> HIDE DEF n
<1> QED
    BY <1>2, <1>3, <1>7 DEF f, n

\* The new IP takes over.
LEMMA CutoverStep ==
    ASSUME FrameInv, NEW t \in Tasks, Cutover(t)
    PROVE  FrameInv'
<1> DEFINE f == local[t]
<1>1. /\ pc[t] = "cutover" /\ Return(t) /\ UNCHANGED <<instances, orders, faults>>
      /\ open' = (open \ {<<f.b, f.i>>}) \cup {<<f.b, f.new>>}
      /\ cooling' = cooling \cup ({<<f.b, f.i>>} \cap open)
      /\ \/ /\ cloud' = Provide(f.i, "detached")
            /\ ips' = [ips EXCEPT ![f.i] = [status |-> "released", inst |-> None]]
         \/ ips' = [ips EXCEPT ![f.i].status = "released"] /\ UNCHANGED cloud
      BY DEF Cutover
<1>2. FrameOK(t) /\ pc[t] \in Rotating /\ pc[t] \in Chosen /\ pc[t] \in Created
      BY <1>1 DEF FrameInv, FramesOK, Rotating, Chosen, Created
<1>3. f.b \in Brokers /\ f.new \in Ips
      BY <1>2 DEF FrameOK
<1>4. f.i \in Ips
  <2>1. PICK a \in DOMAIN assignments : assignments[a].ip = f.i
        BY <1>2 DEF FrameOK
  <2>2. assignments[a] \in Assignment
        BY DEF FrameInv, TypeOK
  <2> QED
      BY <2>1, <2>2 DEF Assignment
<1> HIDE DEF f
<1>5. ips' \in [Ips -> IpRow]
  <2>1. [status |-> "released", inst |-> None] \in IpRow
        BY DEF IpRow, IpStatuses
  <2>2. ips[f.i] \in IpRow
        BY <1>4 DEF FrameInv, TypeOK
  <2>3. [ips[f.i] EXCEPT !.status = "released"] \in IpRow
        BY <2>2 DEF IpRow, IpStatuses
  <2>4. ips' = [ips EXCEPT ![f.i] = [ips[f.i] EXCEPT !.status = "released"]]
        \/ ips' = [ips EXCEPT ![f.i] = [status |-> "released", inst |-> None]]
        BY <1>1
  <2> QED
      BY <1>4, <2>1, <2>3, <2>4, IpsTyped DEF FrameInv
<1>6. cloud' \in [Ips -> IpStatuses]
  <2>1. "detached" \in IpStatuses
        BY DEF IpStatuses
  <2>2. Provide(f.i, "detached") \in [Ips -> IpStatuses]
        BY <1>4, <2>1, ProvideTyped DEF FrameInv
  <2>3. cloud \in [Ips -> IpStatuses]
        BY DEF FrameInv, TypeOK
  <2> QED
      BY <1>1, <2>2, <2>3
<1>7. open' \in SUBSET (Brokers \X Ips) /\ cooling' \in SUBSET (Brokers \X Ips)
      BY <1>1, <1>3, <1>4 DEF FrameInv, TypeOK
<1>8. /\ assignments' \in Seq(Assignment)
      /\ DOMAIN assignments \subseteq DOMAIN assignments'
      /\ \A a \in DOMAIN assignments : /\ assignments'[a].broker = assignments[a].broker
                                       /\ assignments'[a].ip = assignments[a].ip
      BY CutoverEffect
<1>9. faults \in 0..MaxFaults
      BY DEF FrameInv, TypeOK
<1> QED
    BY <1>1, <1>5, <1>6, <1>7, <1>8, <1>9, ReturnStep

\* A rotation that waited too long gives the new IP up.
LEMMA AbortStep ==
    ASSUME FrameInv, NEW t \in Tasks, Abort(t)
    PROVE  FrameInv'
<1>1. /\ pc[t] = "abort" /\ CleanUpNewIp(t) /\ assignments' = SetOld(t, "active") /\ Return(t)
      /\ UNCHANGED <<open, cooling, instances, orders, faults>>
      BY DEF Abort, Reactivated
<1>2. local[t].new \in Ips
      BY <1>1 DEF FrameInv, FramesOK, FrameOK, Created, Chosen, Rotating
<1>3. ips' \in [Ips -> IpRow] /\ cloud' \in [Ips -> IpStatuses]
      BY <1>1, <1>2, CleanUpTyped DEF FrameInv
<1>4. /\ assignments' \in Seq(Assignment)
      /\ DOMAIN assignments \subseteq DOMAIN assignments'
      /\ \A a \in DOMAIN assignments : /\ assignments'[a].broker = assignments[a].broker
                                       /\ assignments'[a].ip = assignments[a].ip
      BY <1>1, SetOldEffect DEF FrameInv
<1>5. /\ open' \in SUBSET (Brokers \X Ips) /\ cooling' \in SUBSET (Brokers \X Ips)
      /\ faults' \in 0..MaxFaults
      BY <1>1 DEF FrameInv, TypeOK
<1> QED
    BY <1>1, <1>3, <1>4, <1>5, ReturnStep

\* A rotation that raised cleans up.
LEMMA CleanUpStep ==
    ASSUME FrameInv, NEW t \in Tasks, CleanUp(t)
    PROVE  FrameInv'
<1>1. /\ pc[t] = "cleanup"
      /\ CleanUpNewIp(t) \/ UNCHANGED <<ips, cloud>>
      /\ Return(t) /\ UNCHANGED <<assignments, open, cooling, instances, orders, faults>>
      BY DEF CleanUp
<1>2. local[t].new \in Ips
      BY <1>1 DEF FrameInv, FramesOK, FrameOK, Created, Chosen, Rotating
<1>3. ips' \in [Ips -> IpRow] /\ cloud' \in [Ips -> IpStatuses]
      BY <1>1, <1>2, CleanUpTyped DEF FrameInv, TypeOK
<1>4. /\ open' \in SUBSET (Brokers \X Ips) /\ cooling' \in SUBSET (Brokers \X Ips)
      /\ assignments' \in Seq(Assignment) /\ faults' \in 0..MaxFaults
      BY <1>1 DEF FrameInv, TypeOK
<1> QED
    BY <1>1, <1>3, <1>4, ReturnStep

\* The clean-up raised itself.
LEMMA CleanUpFailsStep ==
    ASSUME FrameInv, NEW t \in Tasks, CleanUpFails(t)
    PROVE  FrameInv'
<1>1. /\ pc[t] = "cleanup" /\ Return(t) /\ faults < MaxFaults /\ faults' = faults + 1
      /\ cloud' = cloud \/ cloud' = Provide(local[t].new, "released")
      /\ UNCHANGED <<ips, assignments, open, cooling, instances, orders>>
      BY DEF CleanUpFails, rows
<1>2. local[t].new \in Ips
      BY <1>1 DEF FrameInv, FramesOK, FrameOK, Created, Chosen, Rotating
<1>3. cloud' \in [Ips -> IpStatuses]
  <2>1. "released" \in IpStatuses /\ cloud \in [Ips -> IpStatuses]
        BY DEF IpStatuses, FrameInv, TypeOK
  <2>2. Provide(local[t].new, "released") \in [Ips -> IpStatuses]
        BY <1>2, <2>1, ProvideTyped DEF FrameInv
  <2> QED
      BY <1>1, <2>1, <2>2
<1>4. faults' \in 0..MaxFaults
      BY <1>1, IpAssumption DEF FrameInv, TypeOK
<1>5. /\ open' \in SUBSET (Brokers \X Ips) /\ cooling' \in SUBSET (Brokers \X Ips)
      /\ assignments' \in Seq(Assignment) /\ ips' \in [Ips -> IpRow]
      BY <1>1 DEF FrameInv, TypeOK
<1> QED
    BY <1>1, <1>3, <1>4, <1>5, ReturnStep

\* The steps of a rotation that change its place only.
LEMMA PlaceStep ==
    ASSUME FrameInv, NEW t \in Tasks,
           RehostFails(t) \/ Drained(t) \/ DrainTimesOut(t) \/ BadConfig(t)
    PROVE  FrameInv'
<1>1. faults \in Nat /\ faults \in 0..MaxFaults /\ MaxFaults \in Nat
      BY IpAssumption DEF FrameInv, TypeOK
<1>2. CASE RehostFails(t)
  <2>1. /\ pc[t] = "rehost" /\ Goto(t, "cleanup")
        /\ UNCHANGED <<rows, cloud, instances, orders, lock, local, faults>>
        BY <1>2 DEF RehostFails
  <2>2. pc[t] \in Created /\ "cleanup" \in Created /\ "cleanup" \notin Marked
        BY <2>1 DEF Created, Chosen, Rotating, Marked
  <2> QED
      BY <1>1, <2>1, <2>2, GoesOn
<1>3. CASE Drained(t) \/ DrainTimesOut(t)
  <2>1. PICK where \in {"cutover", "abort"} : Goto(t, where)
        BY <1>3 DEF Drained, DrainTimesOut
  <2>2. /\ pc[t] = "drain"
        /\ UNCHANGED <<rows, cloud, instances, orders, lock, local, faults>>
        BY <1>3 DEF Drained, DrainTimesOut
  <2>3. pc[t] \in Created /\ pc[t] \in Marked /\ where \in Created
        BY <2>2 DEF Created, Chosen, Rotating, Marked
  <2>4. local[t].loaded = "draining"
        BY <2>3 DEF FrameInv, FramesOK, FrameOK
  <2> QED
      BY <1>1, <2>1, <2>2, <2>3, <2>4, GoesOn
<1>4. CASE BadConfig(t)
  <2>1. faults' \in 0..MaxFaults /\ UNCHANGED <<rows, cloud, instances, orders>>
        BY <1>1, <1>4 DEF BadConfig
  <2>2. CASE Return(t)
        BY <2>1, <2>2, NothingStep
  <2>3. CASE pc[t] \in {"drain", "cutover"} /\ Goto(t, "cleanup") /\ UNCHANGED <<lock, local>>
    <3>1. pc[t] \in Created /\ "cleanup" \in Created /\ "cleanup" \notin Marked
          BY <2>3 DEF Created, Chosen, Rotating, Marked
    <3> QED
        BY <2>1, <2>3, <3>1, GoesOn
  <2> QED
      BY <1>4, <2>2, <2>3 DEF BadConfig
<1> QED
    BY <1>2, <1>3, <1>4

\* Orders, cooldowns, locks and instances go their own way.
LEMMA EnvironmentStep ==
    ASSUME FrameInv, Environment
    PROVE  FrameInv'
<1>1. UNCHANGED <<assignments, pc, local>>
      BY DEF Environment, RouteOrder, SendOrder, EndOrder, CooldownEnds, LockExpires, Destroy,
         rows
<1>2. TypeOK'
  <2>1. ASSUME NEW o \in Orders, RouteOrder(o) \/ SendOrder(o) \/ EndOrder(o)
        PROVE  TypeOK'
    <3>1. orders' \in [Orders -> Flight]
      <4>0. orders[o] \in Flight /\ orders \in [Orders -> Flight]
            BY DEF FrameInv, TypeOK
      <4>1. CASE RouteOrder(o)
        <5>1. PICK a \in DOMAIN assignments :
                 orders' = [orders EXCEPT ![o] = [stage |-> "routed", ip |-> assignments[a].ip]]
              BY <4>1 DEF RouteOrder
        <5>2. assignments[a] \in Assignment
              BY DEF FrameInv, TypeOK
        <5>3. [stage |-> "routed", ip |-> assignments[a].ip] \in Flight
              BY <5>2 DEF Assignment, Flight
        <5> QED
            BY <4>0, <5>1, <5>3
      <4>2. CASE SendOrder(o)
        <5>1. [orders[o] EXCEPT !.stage = "counted"] \in Flight
              BY <4>0 DEF Flight
        <5>2. orders' = [orders EXCEPT ![o] = [orders[o] EXCEPT !.stage = "counted"]]
              BY <4>2 DEF SendOrder
        <5> QED
            BY <4>0, <5>1, <5>2
      <4>3. CASE EndOrder(o)
        <5>1. [orders[o] EXCEPT !.stage = "done"] \in Flight
              BY <4>0 DEF Flight
        <5>2. orders' = [orders EXCEPT ![o] = [orders[o] EXCEPT !.stage = "done"]]
              BY <4>3 DEF EndOrder
        <5> QED
            BY <4>0, <5>1, <5>2
      <4> QED
          BY <2>1, <4>1, <4>2, <4>3
    <3> QED
        BY <2>1, <3>1 DEF FrameInv, TypeOK, RouteOrder, SendOrder, EndOrder, rows
  <2>2. ASSUME NEW b \in Brokers, NEW i \in Ips, CooldownEnds(b, i)
        PROVE  TypeOK'
        BY <2>2 DEF CooldownEnds, FrameInv, TypeOK
  <2>3. ASSUME NEW k \in Keys, LockExpires(k)
        PROVE  TypeOK'
        BY <2>3 DEF LockExpires, FrameInv, TypeOK, rows
  <2>4. ASSUME NEW n \in Instances, Destroy(n)
        PROVE  TypeOK'
        BY <2>4 DEF Destroy, FrameInv, TypeOK, rows
  <2> QED
      BY <2>1, <2>2, <2>3, <2>4 DEF Environment
<1>3. FramesOK'
      BY <1>1 DEF FrameInv, FramesOK, FrameOK
<1> QED
    BY <1>2, <1>3 DEF FrameInv

\* After a crash nobody has a frame.
LEMMA CrashStep ==
    ASSUME FrameInv, Crash
    PROVE  FrameInv'
<1>1. IdleFrame \in Frame /\ IdleFrame.asgs = {} /\ "idle" \in Pcs
      BY DEF IdleFrame, Asking, Frame, AbsentIp, IpRow, IpStatuses, Pcs
<1>2. /\ faults' = faults + 1 /\ faults < MaxFaults
      /\ pc' = [t \in Tasks |-> "idle"] /\ local' = [t \in Tasks |-> IdleFrame]
      /\ lock' = [k \in Keys |-> IF lock[k] = None THEN None ELSE Lost]
      /\ orders' = [o \in Orders |-> IF orders[o].stage = "routed"
                                     THEN [stage |-> "done", ip |-> orders[o].ip]
                                     ELSE orders[o]]
      /\ cloud' = [i \in Ips |-> "absent"]
      /\ UNCHANGED <<ips, assignments, open, cooling, instances>>
      BY DEF Crash, rows
<1> HIDE DEF IdleFrame
<1>3. TypeOK'
  <2>1. orders' \in [Orders -> Flight]
    <3>1. \A o \in Orders : orders[o] \in Flight
          BY DEF FrameInv, TypeOK
    <3>2. \A o \in Orders : [stage |-> "done", ip |-> orders[o].ip] \in Flight
          BY <3>1 DEF Flight
    <3> QED
        BY <1>2, <3>1, <3>2
  <2>2. faults' \in 0..MaxFaults
        BY <1>2, IpAssumption DEF FrameInv, TypeOK
  <2>3. /\ pc' \in [Tasks -> Pcs] /\ local' \in [Tasks -> Frame]
        /\ lock' \in [Keys -> Tasks \cup {None, Lost}]
        BY <1>1, <1>2
  <2>4. cloud' \in [Ips -> IpStatuses]
        BY <1>2 DEF IpStatuses
  <2> QED
      BY <1>2, <2>1, <2>2, <2>3, <2>4 DEF FrameInv, TypeOK
<1>4. ASSUME NEW t \in Tasks
      PROVE  FrameOK(t)'
  <2>1. pc'[t] = "idle" /\ local'[t] = IdleFrame
        BY <1>2
  <2> QED
      BY <1>1, <2>1 DEF FrameOK, Rotating, Chosen, Created, Marked
<1> QED
    BY <1>3, <1>4 DEF FrameInv, FramesOK

\* Every step keeps FrameInv.
LEMMA FrameStep ==
    ASSUME FrameInv, [Next]_vars
    PROVE  FrameInv'
<1>0. faults \in 0..MaxFaults
      BY DEF FrameInv, TypeOK
<1>1. ASSUME NEW t \in Tasks, Request(t)
      PROVE  FrameInv'
      BY <1>1, BeginStep
<1>2. ASSUME NEW t \in Tasks,
             Refuse(t) \/ AllocateFails(t) \/ NoAssignment(t) \/ CreateNewIpFails(t)
      PROVE  FrameInv'
      BY <1>0, <1>2, NothingStep DEF Refuse, AllocateFails, NoAssignment, CreateNewIpFails
<1>3. ASSUME NEW t \in Tasks, Step(t)
      PROVE  FrameInv'
      BY <1>2, <1>3, CheckStep, CallStep, CommitStep, ReadStep, CreateStep, RehostStep,
         MarkDrainingStep, CutoverStep, AbortStep, CleanUpStep,
         CleanUpFailsStep, PlaceStep DEF Step, RotateStep
<1>4. CASE UNCHANGED vars
      BY <1>4 DEF vars, rows, FrameInv, FramesOK, FrameOK, TypeOK
<1> QED
    BY <1>1, <1>3, <1>4, EnvironmentStep, CrashStep DEF Next

\* FrameInv holds in every state.
LEMMA FrameInvariant == Spec => []FrameInv
<1>1. Init => FrameInv
  <2> SUFFICES ASSUME Init
               PROVE  FrameInv
      OBVIOUS
  <2>1. /\ IdleFrame \in Frame /\ IdleFrame.asgs = {} /\ "idle" \in Pcs
        /\ AbsentIp \in IpRow /\ "absent" \in IpStatuses
        BY DEF IdleFrame, Asking, Frame, AbsentIp, IpRow, IpStatuses, Pcs
  <2>2. TypeOK
    <3>1. /\ pc \in [Tasks -> Pcs] /\ local \in [Tasks -> Frame] /\ ips \in [Ips -> IpRow]
          /\ cloud \in [Ips -> IpStatuses]
          BY <2>1 DEF Init
    <3>2. /\ instances \in [Instances -> {"running", "destroyed"}]
          /\ assignments \in Seq(Assignment) /\ open = {} /\ cooling = {}
          /\ lock \in [Keys -> Tasks \cup {None, Lost}]
          BY DEF Init
    <3>3. orders \in [Orders -> Flight] /\ faults \in 0..MaxFaults
          BY IpAssumption DEF Init, Flight
    <3> QED
        BY <3>1, <3>2, <3>3 DEF TypeOK
  <2>3. ASSUME NEW t \in Tasks
        PROVE  FrameOK(t)
    <3>1. pc[t] = "idle" /\ local[t] = IdleFrame
          BY DEF Init
    <3> QED
        BY <2>1, <3>1 DEF FrameOK, Rotating, Chosen, Created, Marked
  <2> QED
      BY <2>2, <2>3 DEF FrameInv, FramesOK
<1>2. FrameInv /\ [Next]_vars => FrameInv'
      BY FrameStep
<1> QED
    BY <1>1, <1>2, PTL DEF Spec

\* The tables, the provider, the locks and the requests' frames keep their
\* types: no assignment, IP or order gets a status that the code does not know.
THEOREM IpManagerTyped == Spec => []TypeOK
<1>1. FrameInv => TypeOK
      BY DEF FrameInv
<1> QED
    BY <1>1, FrameInvariant, PTL

-----------------------------------------------------------------------------
(* Rotations end what they begin, locks or no locks.                       *)

\* A request changes no frame but its own.
LEMMA OnlyItsFrame ==
    ASSUME FrameInv, NEW t \in Tasks, Request(t) \/ Step(t)
    PROVE  \A u \in Tasks \ {t} : pc'[u] = pc[u] /\ local'[u] = local[u]
<1> DEFINE Goal == \A u \in Tasks \ {t} : pc'[u] = pc[u] /\ local'[u] = local[u]
<1>1. CASE Request(t)
      BY <1>1, RequestEffect, BeginEffect DEF FrameInv
<1>2. CASE Check(t) \/ ReadAssignment(t) \/ CreateNewIp(t) \/ Rehost(t) \/ MarkDraining(t)
      BY <1>2, CheckEffect, ReadEffect, CreateEffect, RehostEffect, MarkDrainingEffect
<1>3. ASSUME Return(t)
      PROVE  Goal
      BY <1>3, ReturnEffect DEF FrameInv
<1>4. ASSUME NEW where, Goto(t, where), UNCHANGED local
      PROVE  Goal
      BY <1>4 DEF Goto, FrameInv, TypeOK
<1> HIDE DEF Goal
<1>5. CASE Refuse(t) \/ AllocateFails(t) \/ Commit(t) \/ NoAssignment(t) \/ CreateNewIpFails(t)
           \/ Abort(t) \/ Cutover(t) \/ CleanUp(t) \/ CleanUpFails(t)
  <2>1. Return(t)
        BY <1>5 DEF Refuse, AllocateFails, Commit, NoAssignment, CreateNewIpFails, Abort,
           Cutover, CleanUp, CleanUpFails
  <2> QED
      BY <1>3, <2>1 DEF Goal
<1>6. CASE Call(t) \/ RehostFails(t) \/ Drained(t) \/ DrainTimesOut(t) \/ BadConfig(t)
  <2>1. Return(t) \/ \E where : Goto(t, where) /\ UNCHANGED local
        BY <1>6 DEF Call, RehostFails, Drained, DrainTimesOut, BadConfig
  <2> QED
      BY <1>3, <1>4, <2>1 DEF Goal
<1> QED
    BY <1>1, <1>2, <1>5, <1>6 DEF Step, RotateStep

\* What drained before drains on for the same rotation, unless that is the one
\* that takes the step.
LEMMA DrainKept ==
    ASSUME DrainInv, NEW t \in Tasks, faults' = faults,
           \A u \in Tasks \ {t} : pc'[u] = pc[u] /\ local'[u] = local[u],
           pc[t] \in Marked => pc'[t] \in Marked /\ local'[t].asgs = local[t].asgs,
           \A a \in DOMAIN assignments' : assignments'[a].status = "draining" =>
               a \in DOMAIN assignments /\ assignments[a].status = "draining"
    PROVE  DrainInv'
<1> SUFFICES ASSUME faults' = 0, NEW a \in DOMAIN assignments',
                    assignments'[a].status = "draining"
             PROVE  \E u \in Tasks : pc'[u] \in Marked /\ a \in local'[u].asgs
    BY DEF DrainInv, Marked
<1>1. a \in DOMAIN assignments /\ assignments[a].status = "draining"
      OBVIOUS
<1>2. PICK u \in Tasks : pc[u] \in Marked /\ a \in local[u].asgs
      BY <1>1 DEF DrainInv
<1> QED
    BY <1>2

\* A commit makes no assignment drain.
LEMMA CommitDrains ==
    ASSUME FrameInv, NEW t \in Tasks, Commit(t)
    PROVE  \A a \in DOMAIN assignments' : assignments'[a].status = "draining" =>
               a \in DOMAIN assignments /\ assignments[a].status = "draining"
<1> DEFINE f == local[t]
           n == Len(assignments) + 1
<1>1. /\ f.i \in Ips
      /\ f.op = "assign" => f.b \in Brokers
      /\ f.op = "assign" => assignments' = Add(assignments, f.b, f.i)
      /\ f.op # "assign" => assignments' = MarkAll(assignments, f.asgs, "released")
      BY CommitEffect
<1>2. assignments \in Seq(Assignment)
      BY DEF FrameInv, TypeOK
<1> HIDE DEF f
<1>3. CASE f.op = "assign"
  <2>1. f.b \in Brokers /\ f.i \in Ips /\ assignments' = Add(assignments, f.b, f.i)
        BY <1>1, <1>3
  <2>2. /\ DOMAIN Add(assignments, f.b, f.i) = DOMAIN assignments \cup {n}
        /\ \A a \in DOMAIN assignments : Add(assignments, f.b, f.i)[a] = assignments[a]
        /\ Add(assignments, f.b, f.i)[n] = [broker |-> f.b, ip |-> f.i, status |-> "active"]
        BY <1>2, <2>1, AddEffect, Zenon
  <2> HIDE DEF n
  <2>3. assignments'[n].status = "active"
        BY <2>1, <2>2
  <2> QED
      BY <2>1, <2>2, <2>3
<1>4. CASE f.op # "assign"
  <2>1. assignments' = MarkAll(assignments, f.asgs, "released")
        BY <1>1, <1>4
  <2>2. /\ DOMAIN MarkAll(assignments, f.asgs, "released") = DOMAIN assignments
        /\ \A a \in DOMAIN assignments :
              MarkAll(assignments, f.asgs, "released")[a].status =
                  IF a \in f.asgs THEN "released" ELSE assignments[a].status
        BY <1>2, MarkAllEffect
  <2> QED
      BY <2>1, <2>2
<1> QED
    BY <1>3, <1>4

\* The rotation that ends takes its assignment out of the drain.
LEMMA DrainEnds ==
    ASSUME FrameInv, DrainInv, NEW t \in Tasks, faults' = faults,
           \A u \in Tasks \ {t} : pc'[u] = pc[u] /\ local'[u] = local[u],
           \A a \in DOMAIN assignments' : assignments'[a].status = "draining" =>
               /\ a \in DOMAIN assignments /\ assignments[a].status = "draining"
               /\ a \notin local[t].asgs
    PROVE  DrainInv'
<1> SUFFICES ASSUME faults' = 0, NEW a \in DOMAIN assignments',
                    assignments'[a].status = "draining"
             PROVE  \E u \in Tasks : pc'[u] \in Marked /\ a \in local'[u].asgs
    BY DEF DrainInv, Marked
<1>1. /\ a \in DOMAIN assignments /\ assignments[a].status = "draining"
      /\ a \notin local[t].asgs
      OBVIOUS
<1>2. PICK u \in Tasks : pc[u] \in Marked /\ a \in local[u].asgs
      BY <1>1 DEF DrainInv
<1> QED
    BY <1>1, <1>2

\* An assignment begins to drain when its rotation waits and ends to when that
\* rotation ends.
LEMMA DrainStep ==
    ASSUME FrameInv, DrainInv, [Next]_vars
    PROVE  DrainInv'
<1>0. faults \in Nat
      BY IpAssumption DEF FrameInv, TypeOK
<1>1. ASSUME NEW t \in Tasks, Request(t)
      PROVE  DrainInv'
  <2>1. \A u \in Tasks \ {t} : pc'[u] = pc[u] /\ local'[u] = local[u]
        BY <1>1, OnlyItsFrame
  <2>2. pc[t] = "idle" /\ UNCHANGED <<assignments, faults>>
        BY <1>1, RequestEffect DEF Begin, rows
  <2> QED
      BY <2>1, <2>2, DrainKept DEF Marked
<1>2. ASSUME NEW t \in Tasks, Step(t)
      PROVE  DrainInv'
  <2>1. \A u \in Tasks \ {t} : pc'[u] = pc[u] /\ local'[u] = local[u]
        BY <1>2, OnlyItsFrame
  <2>2. CASE Check(t) \/ Refuse(t) \/ Call(t) \/ AllocateFails(t) \/ NoAssignment(t)
             \/ ReadAssignment(t) \/ CreateNewIp(t) \/ CreateNewIpFails(t) \/ Rehost(t)
             \/ RehostFails(t) \/ CleanUp(t)
    <3>1. pc[t] \notin Marked /\ UNCHANGED <<assignments, faults>>
          BY <2>2 DEF Check, Refuse, Call, AllocateFails, NoAssignment, ReadAssignment,
             CreateNewIp, CreateNewIpFails, Rehost, RehostFails, CleanUp, rows, Marked
    <3> QED
        BY <2>1, <3>1, DrainKept
  <2>3. CASE Commit(t)
    <3>1. pc[t] \notin Marked /\ faults' = faults
          BY <2>3, CommitEffect DEF Marked
    <3> QED
        BY <2>1, <2>3, <3>1, CommitDrains, DrainKept
  <2>4. CASE MarkDraining(t)
    <3>1. /\ assignments' = SetOld(t, "draining") /\ faults' = faults
          /\ pc'[t] = "drain" /\ pc[t] = "markDraining" /\ local'[t].asgs = local[t].asgs
          BY <2>4, MarkDrainingEffect
    <3>2. /\ DOMAIN assignments' = DOMAIN assignments
          /\ \A a \in DOMAIN assignments :
                assignments'[a].status = "draining" =>
                    assignments[a].status = "draining" \/ a \in local[t].asgs
          BY <3>1, SetOldEffect DEF FrameInv
    <3>3. ASSUME faults' = 0, NEW a \in DOMAIN assignments', assignments'[a].status = "draining"
          PROVE  \E u \in Tasks : pc'[u] \in Marked /\ a \in local'[u].asgs
      <4>1. CASE a \in local[t].asgs
            BY <3>1, <4>1 DEF Marked
      <4>2. CASE assignments[a].status = "draining"
        <5>1. PICK u \in Tasks : pc[u] \in Marked /\ a \in local[u].asgs
              BY <3>1, <3>2, <3>3, <4>2 DEF DrainInv
        <5>2. u # t
              BY <3>1, <5>1 DEF Marked
        <5> QED
            BY <2>1, <5>1, <5>2
      <4> QED
          BY <3>2, <3>3, <4>1, <4>2
    <3> QED
        BY <3>3 DEF DrainInv, Marked
  <2>5. CASE Drained(t) \/ DrainTimesOut(t)
    <3>1. /\ pc'[t] \in Marked /\ local' = local /\ UNCHANGED <<assignments, faults>>
          BY <2>5 DEF Drained, DrainTimesOut, Goto, FrameInv, TypeOK, rows, Marked
    <3> QED
        BY <2>1, <3>1, DrainKept
  <2>6. CASE BadConfig(t) \/ CleanUpFails(t)
    <3>1. faults' # 0
          BY <1>0, <2>6 DEF BadConfig, CleanUpFails
    <3> QED
        BY <3>1 DEF DrainInv
  <2>7. CASE Abort(t)
    <3>1. pc[t] \in Marked /\ assignments' = SetOld(t, "active") /\ faults' = faults
          BY <2>7 DEF Abort, Reactivated, Marked
    <3>2. local[t].loaded = "draining"
          BY <3>1 DEF FrameInv, FramesOK, FrameOK
    <3>3. /\ DOMAIN assignments' = DOMAIN assignments
          /\ \A a \in DOMAIN assignments :
                assignments'[a].status = IF a \in local[t].asgs THEN "active"
                                         ELSE assignments[a].status
          BY <3>1, <3>2, SetOldEffect DEF FrameInv
    <3> QED
        BY <2>1, <3>1, <3>3, DrainEnds
  <2>8. CASE Cutover(t)
    <3> DEFINE n == Len(assignments) + 1
    <3>1. /\ DOMAIN assignments' = DOMAIN assignments \cup {n}
          /\ \A a \in DOMAIN assignments :
                assignments'[a].status = IF a \in local[t].asgs THEN "released"
                                         ELSE assignments[a].status
          /\ assignments'[n] = [broker |-> local[t].b, ip |-> local[t].new,
                                status |-> "active"]
          BY <2>8, CutoverEffect
    <3> HIDE DEF n
    <3>2. faults' = faults /\ assignments'[n].status = "active"
          BY <2>8, <3>1 DEF Cutover
    <3> QED
        BY <2>1, <3>1, <3>2, DrainEnds
  <2> QED
      BY <1>2, <2>2, <2>3, <2>4, <2>5, <2>6, <2>7, <2>8 DEF Step, RotateStep
<1>3. CASE Crash
  <2>1. faults' # 0
        BY <1>0, <1>3 DEF Crash
  <2> QED
      BY <2>1 DEF DrainInv
<1>4. CASE Environment \/ UNCHANGED vars
  <2>1. UNCHANGED <<pc, local, assignments, faults>>
        BY <1>4 DEF vars, Environment, RouteOrder, SendOrder, EndOrder, CooldownEnds,
           LockExpires, Destroy, rows
  <2> QED
      BY <2>1 DEF DrainInv
<1> QED
    BY <1>1, <1>2, <1>3, <1>4 DEF Next

\* As long as nothing failed, an assignment drains only while its rotation
\* runs: rotate() releases it at the cutover or makes it active again, whatever
\* other requests do meanwhile and even if its locks expire.
THEOREM DrainingEnds == Spec => []DrainingIsResolved
<1>1. Init => DrainInv
      BY DEF Init, DrainInv
<1>2. FrameInv /\ DrainInv /\ [Next]_vars => DrainInv'
      BY DrainStep
<1>3. DrainInv => DrainingIsResolved
      BY DEF DrainInv, DrainingIsResolved, Marked, Rotating
<1> QED
    BY <1>1, <1>2, <1>3, FrameInvariant, PTL DEF Spec

\* The new IP's row is released when its rotation gives it up.
LEMMA CleanedUp ==
    ASSUME FrameInv, NEW t \in Tasks, CleanUpNewIp(t), pc[t] \in Created
    PROVE  ips'[local[t].new].status = "released"
<1> DEFINE f == local[t]
           gone == [status |-> "released", inst |-> None]
<1>1. f.new \in Ips /\ f.newView.status # "released"
      BY DEF FrameInv, FramesOK, FrameOK
<1>2. ips' = [ips EXCEPT ![f.new] = Flush(ips[f.new], f.newView, gone)]
      BY DEF CleanUpNewIp
<1>3. ips'[f.new] = Flush(ips[f.new], f.newView, gone)
      BY <1>1, <1>2 DEF FrameInv, TypeOK
<1>4. gone.status = "released"
      OBVIOUS
<1> HIDE DEF gone, f
<1>5. Flush(ips[f.new], f.newView, gone).status = "released"
      BY <1>1, <1>4 DEF Flush
<1> QED
    BY <1>3, <1>5 DEF f

\* A rotation that ends has assigned its new IP or released it: rotate() leaves
\* no allocated IP behind that nobody uses, whichever way it ends and whatever
\* other requests and expiring locks did meanwhile.
THEOREM NewIpsSettled == Spec => NewIpSettled
<1> DEFINE Settled == \A t \in Tasks :
                         /\ pc[t] \in Rotating
                         /\ pc'[t] = "idle"
                         /\ faults' = faults
                         /\ local[t].new # None
                         => \/ ips'[local[t].new].status = "released"
                            \/ \E a \in DOMAIN assignments' :
                                  /\ assignments'[a].status = "active"
                                  /\ assignments'[a].ip = local[t].new
<1>1. ASSUME FrameInv, Next
      PROVE  Settled
  <2> SUFFICES ASSUME NEW t \in Tasks, pc[t] \in Rotating, pc'[t] = "idle",
                      faults' = faults, local[t].new # None
               PROVE  \/ ips'[local[t].new].status = "released"
                      \/ \E a \in DOMAIN assignments' :
                            /\ assignments'[a].status = "active"
                            /\ assignments'[a].ip = local[t].new
      OBVIOUS
  <2>1. pc[t] \notin {"read", "create", "idle", "check", "call", "commit"}
        BY <1>1 DEF FrameInv, FramesOK, FrameOK, Rotating
  <2>2. CASE Abort(t)
    <3>1. CleanUpNewIp(t) /\ pc[t] \in Created
          BY <2>2 DEF Abort, Created, Chosen, Rotating
    <3> QED
        BY <1>1, <3>1, CleanedUp
  <2>3. CASE Cutover(t)
    <3> DEFINE n == Len(assignments) + 1
    <3>1. /\ n \in DOMAIN assignments'
          /\ assignments'[n] = [broker |-> local[t].b, ip |-> local[t].new,
                                status |-> "active"]
          BY <1>1, <2>3, CutoverEffect
    <3> HIDE DEF n
    <3>2. assignments'[n].status = "active" /\ assignments'[n].ip = local[t].new
          BY <3>1
    <3> QED
        BY <3>1, <3>2
  <2>4. CASE CleanUp(t)
    <3>1. pc[t] \in Created /\ local[t].newView.status # "released"
          BY <1>1, <2>4 DEF CleanUp, Created, Chosen, Rotating, FrameInv, FramesOK, FrameOK
    <3>2. CASE CleanUpNewIp(t)
          BY <1>1, <3>1, <3>2, CleanedUp
    <3>3. CASE ~CleanUpNewIp(t)
      <4>1. ActiveOn(local[t].new) # {} /\ assignments' = assignments
            BY <2>4, <3>1, <3>3 DEF CleanUp
      <4> QED
          BY <4>1 DEF ActiveOn, Active
    <3> QED
        BY <3>2, <3>3
  <2>5. ~Rehost(t) /\ ~MarkDraining(t)
        BY <1>1, RehostEffect, MarkDrainingEffect
  <2>6. ~RehostFails(t) /\ ~Drained(t) /\ ~DrainTimesOut(t)
        BY <1>1 DEF RehostFails, Drained, DrainTimesOut, Goto, FrameInv, TypeOK
  <2>7. ~BadConfig(t) /\ ~CleanUpFails(t) /\ ~Crash
        BY <1>1 DEF BadConfig, CleanUpFails, Crash, FrameInv, TypeOK
  <2>8. ~Check(t) /\ ~Refuse(t) /\ ~Call(t) /\ ~AllocateFails(t) /\ ~Commit(t)
        /\ ~NoAssignment(t) /\ ~ReadAssignment(t) /\ ~CreateNewIp(t) /\ ~CreateNewIpFails(t)
        BY <2>1 DEF Check, Refuse, Call, AllocateFails, Commit, NoAssignment, ReadAssignment,
           CreateNewIp, CreateNewIpFails
  <2>9. ~Request(t)
        BY <2>1, RequestEffect DEF Begin
  <2>10. ~Environment
        BY <2>1 DEF Environment, RouteOrder, SendOrder, EndOrder, CooldownEnds, LockExpires,
           Destroy
  <2>11. \A u \in Tasks \ {t} : ~Request(u) /\ ~Step(u)
        BY <1>1, <2>1, OnlyItsFrame
  <2> QED
      BY <1>1, <2>2, <2>3, <2>4, <2>5, <2>6, <2>7, <2>8, <2>9, <2>10, <2>11
      DEF Next, Step, RotateStep
<1>2. FrameInv /\ [Next]_vars => [Settled]_vars
      BY <1>1
<1> QED
    BY <1>2, FrameInvariant, PTL DEF Spec, NewIpSettled

-----------------------------------------------------------------------------
(* One active IP per broker, as long as locks last.                        *)

\* The keys of a request's locks are keys.
LEMMA KeysOf ==
    ASSUME FrameInv, NEW t \in Tasks, pc[t] # "idle"
    PROVE  /\ LocksOf(local[t]) \subseteq Keys
           /\ local[t].op \in IpOps => IpLock(local[t].i) \in LocksOf(local[t])
           /\ local[t].op \in {"assign", "rotate"} =>
                 BrokerLock(local[t].b) \in LocksOf(local[t])
<1>1. FrameOK(t) /\ pc[t] \in Pcs
      BY DEF FrameInv, FramesOK, TypeOK
<1>2. CASE pc[t] \in {"check", "call", "commit"}
  <2>1. /\ local[t].op \in IpOps \cup {"allocate"} /\ local[t].i \in Ips
        /\ local[t].op = "assign" => local[t].b \in Brokers
        BY <1>1, <1>2 DEF FrameOK
  <2> QED
      BY <2>1 DEF LocksOf, IpOps, IpLock, BrokerLock, Keys
<1>3. CASE pc[t] \in Rotating
  <2>1. local[t].op = "rotate" /\ local[t].b \in Brokers
        BY <1>1, <1>3 DEF FrameOK
  <2> QED
      BY <2>1 DEF LocksOf, IpOps, IpLock, BrokerLock, Keys
<1> QED
    BY <1>1, <1>2, <1>3 DEF Pcs

\* A step between a request's start and its end leaves its locks alone.
LEMMA SameLocks ==
    ASSUME FrameInv, NEW t \in Tasks, Step(t), ~Return(t)
    PROVE  lock' = lock /\ LocksOf(local'[t]) = LocksOf(local[t]) /\ pc[t] # "idle"
<1>1. CASE Check(t)
  <2>1. /\ lock' = lock /\ pc[t] = "check" /\ local'[t].op = local[t].op
        /\ local'[t].b = local[t].b /\ local'[t].i = local[t].i
        BY <1>1, CheckEffect
  <2> QED
      BY <2>1 DEF LocksOf
<1>2. CASE ReadAssignment(t) \/ CreateNewIp(t) \/ Rehost(t) \/ MarkDraining(t)
  <2>1. /\ lock' = lock /\ pc[t] \in Rotating /\ local'[t].op = local[t].op
        /\ local'[t].b = local[t].b
        BY <1>2, ReadEffect, CreateEffect, RehostEffect, MarkDrainingEffect DEF Rotating
  <2>2. local[t].op = "rotate"
        BY <2>1 DEF FrameInv, FramesOK, FrameOK
  <2>3. pc[t] # "idle"
        BY <2>1 DEF Rotating
  <2> QED
      BY <2>1, <2>2, <2>3 DEF LocksOf
<1>3. CASE Call(t) \/ RehostFails(t) \/ Drained(t) \/ DrainTimesOut(t) \/ BadConfig(t)
      BY <1>3 DEF Call, RehostFails, Drained, DrainTimesOut, BadConfig
<1> QED
    BY <1>1, <1>2, <1>3 DEF Step, RotateStep, Refuse, AllocateFails, Commit, NoAssignment,
       CreateNewIpFails, Abort, Cutover, CleanUp,
         CleanUpFails

\* Locks are taken when nobody has them and given back by who has them; while
\* none expires under its owner, every request has its own.
LEMMA LocksStep ==
    ASSUME ~LocksExpire, FrameInv, LocksHeld, [Next]_vars
    PROVE  LocksHeld'
<1>1. ASSUME NEW t \in Tasks, Request(t)
      PROVE  LocksHeld'
  <2>1. PICK f \in Frame : Begin(t, f)
        BY <1>1, RequestEffect
  <2>2. /\ local'[t] = f
        /\ \A u \in Tasks \ {t} : pc'[u] = pc[u] /\ local'[u] = local[u]
        /\ \A k \in Keys : lock'[k] = IF k \in LocksOf(f) THEN t ELSE lock[k]
        /\ \A k \in LocksOf(f) : lock[k] = None
        BY <2>1, BeginEffect DEF FrameInv
  <2>3. FrameInv'
        BY <1>1, BeginStep
  <2>4. ASSUME NEW u \in Tasks, pc'[u] # "idle", NEW k \in LocksOf(local'[u])
        PROVE  lock'[k] = u
    <3>1. CASE u = t
      <4>1. (LocksOf(local[t]) \subseteq Keys)'
        <5>1. (pc[t] # "idle")'
              BY <2>4, <3>1
        <5> QED
            BY <2>3, <5>1, KeysOf, PTL
      <4>2. k \in LocksOf(f) /\ k \in Keys
            BY <2>2, <2>4, <3>1, <4>1
      <4> QED
          BY <2>2, <3>1, <4>2
    <3>2. CASE u # t
      <4>1. k \in LocksOf(local[u]) /\ pc[u] # "idle"
            BY <2>2, <2>4, <3>2
      <4>2. lock[k] = u /\ k \in Keys
            BY <4>1, KeysOf DEF LocksHeld
      <4>3. u # None
            BY IpAssumption
      <4> QED
          BY <2>2, <4>2, <4>3
    <3> QED
        BY <3>1, <3>2
  <2> QED
      BY <2>4 DEF LocksHeld
<1>2. ASSUME NEW t \in Tasks, Step(t), Return(t)
      PROVE  LocksHeld'
  <2>1. /\ pc'[t] = "idle"
        /\ \A u \in Tasks \ {t} : pc'[u] = pc[u] /\ local'[u] = local[u]
        /\ \A k \in Keys : lock'[k] = IF lock[k] = t THEN None ELSE lock[k]
        BY <1>2, ReturnEffect DEF FrameInv
  <2>2. ASSUME NEW u \in Tasks, pc'[u] # "idle", NEW k \in LocksOf(local'[u])
        PROVE  lock'[k] = u
    <3>1. u # t /\ pc[u] # "idle" /\ k \in LocksOf(local[u])
          BY <2>1, <2>2
    <3>2. lock[k] = u /\ k \in Keys
          BY <3>1, KeysOf DEF LocksHeld
    <3> QED
        BY <2>1, <3>1, <3>2
  <2> QED
      BY <2>2 DEF LocksHeld
<1>3. ASSUME NEW t \in Tasks, Step(t), ~Return(t)
      PROVE  LocksHeld'
  <2>1. /\ \A u \in Tasks \ {t} : pc'[u] = pc[u] /\ local'[u] = local[u]
        /\ lock' = lock /\ LocksOf(local'[t]) = LocksOf(local[t]) /\ pc[t] # "idle"
        BY <1>3, OnlyItsFrame, SameLocks
  <2>2. ASSUME NEW u \in Tasks, pc'[u] # "idle", NEW k \in LocksOf(local'[u])
        PROVE  lock'[k] = u
    <3>1. pc[u] # "idle" /\ k \in LocksOf(local[u])
      <4>1. CASE u = t
            BY <2>1, <2>2, <4>1
      <4>2. CASE u # t
            BY <2>1, <2>2, <4>2
      <4> QED
          BY <4>1, <4>2
    <3> QED
        BY <2>1, <3>1 DEF LocksHeld
  <2> QED
      BY <2>2 DEF LocksHeld
<1>4. CASE Crash
  <2>1. \A t \in Tasks : pc'[t] = "idle"
        BY <1>4 DEF Crash
  <2> QED
      BY <2>1 DEF LocksHeld
<1>5. CASE Environment \/ UNCHANGED vars
  <2>1. /\ UNCHANGED <<pc, local>>
        /\ \A k \in Keys : lock'[k] = lock[k] \/ lock[k] = Lost
    <3>1. ASSUME NEW k \in Keys, LockExpires(k)
          PROVE  \A j \in Keys : lock'[j] = lock[j] \/ lock[j] = Lost
          BY <3>1 DEF LockExpires, FrameInv, TypeOK
    <3> QED
        BY <1>5, <3>1 DEF vars, Environment, RouteOrder, SendOrder, EndOrder, CooldownEnds,
           LockExpires, Destroy, rows
  <2>2. ASSUME NEW u \in Tasks, pc'[u] # "idle", NEW k \in LocksOf(local'[u])
        PROVE  lock'[k] = u
    <3>1. pc[u] # "idle" /\ k \in LocksOf(local[u])
          BY <2>1, <2>2
    <3>2. lock[k] = u /\ k \in Keys
          BY <3>1, KeysOf DEF LocksHeld
    <3> QED
        BY <2>1, <3>2, IpAssumption
  <2> QED
      BY <2>2 DEF LocksHeld
<1> QED
    BY <1>1, <1>2, <1>3, <1>4, <1>5 DEF Next

\* No two requests that assign or rotate are about one broker.
LEMMA BrokerExcludes ==
    ASSUME FrameInv, LocksHeld, NEW t \in Tasks, NEW u \in Tasks,
           pc[t] # "idle", pc[u] # "idle", local[t].op \in {"assign", "rotate"},
           local[u].op \in {"assign", "rotate"}, local[t].b = local[u].b
    PROVE  t = u
<1>1. lock[BrokerLock(local[t].b)] = t
      BY KeysOf DEF LocksHeld
<1>2. lock[BrokerLock(local[u].b)] = u
      BY KeysOf DEF LocksHeld
<1> QED
    BY <1>1, <1>2

\* What was not active and is now: the assignment that a commit or a cutover
\* adds, or the old one of a rotation that aborts; a cutover's old one is not.
LEMMA BecomesActive ==
    ASSUME FrameInv, NEW t \in Tasks, Request(t) \/ Step(t),
           NEW a \in DOMAIN assignments', assignments'[a].status = "active"
    PROVE  \/ /\ a \in DOMAIN assignments /\ assignments[a].status = "active"
              /\ assignments'[a].broker = assignments[a].broker
              /\ assignments'[a].ip = assignments[a].ip
              /\ Cutover(t) => a \notin local[t].asgs
           \/ /\ \/ Commit(t) /\ local[t].op = "assign" /\ assignments'[a].ip = local[t].i
                 \/ Cutover(t)
              /\ a = Len(assignments) + 1 /\ assignments'[a].broker = local[t].b
           \/ Abort(t) /\ a \in local[t].asgs /\ assignments'[a].broker = local[t].b
<1> DEFINE f == local[t]
           n == Len(assignments) + 1
<1>1. assignments \in Seq(Assignment) /\ f \in Frame
      BY DEF FrameInv, TypeOK
<1>2. CASE Cutover(t)
  <2>1. /\ DOMAIN assignments' = DOMAIN assignments \cup {n}
        /\ \A x \in DOMAIN assignments :
              /\ assignments'[x].broker = assignments[x].broker
              /\ assignments'[x].ip = assignments[x].ip
              /\ assignments'[x].status = IF x \in f.asgs THEN "released"
                                          ELSE assignments[x].status
        /\ assignments'[n] = [broker |-> f.b, ip |-> f.new, status |-> "active"]
        BY <1>2, CutoverEffect
  <2>2. assignments'[n].broker = f.b
        BY <2>1
  <2>3. CASE a = n
        BY <1>2, <2>2, <2>3
  <2>4. CASE a \in DOMAIN assignments
    <3>1. a \notin f.asgs /\ assignments[a].status = "active"
          BY <2>1, <2>4
    <3> QED
        BY <2>1, <2>4, <3>1
  <2> QED
      BY <2>1, <2>3, <2>4
<1>3. CASE Commit(t)
  <2>1. /\ f.op = "assign" => assignments' = Add(assignments, f.b, f.i)
        /\ f.op # "assign" => assignments' = MarkAll(assignments, f.asgs, "released")
        /\ f.op = "assign" => f.b \in Brokers
        /\ f.i \in Ips /\ pc[t] = "commit"
        BY <1>3, CommitEffect
  <2>2. ~Cutover(t)
        BY <2>1 DEF Cutover
  <2>3. CASE f.op = "assign"
    <3> HIDE DEF f
    <3>0. f.b \in Brokers /\ f.i \in Ips
          BY <2>1, <2>3
    <3>1. /\ DOMAIN Add(assignments, f.b, f.i) = DOMAIN assignments \cup {n}
          /\ \A x \in DOMAIN assignments : Add(assignments, f.b, f.i)[x] = assignments[x]
          /\ Add(assignments, f.b, f.i)[n] =
                [broker |-> f.b, ip |-> f.i, status |-> "active"]
          BY <1>1, <3>0, AddEffect, Zenon
    <3>2. assignments' = Add(assignments, f.b, f.i)
          BY <2>1, <2>3
    <3> HIDE DEF n
    <3>3. CASE a = n
      <4>1. assignments'[a].broker = f.b /\ assignments'[a].ip = f.i
            BY <3>1, <3>2, <3>3
      <4> QED
          BY <1>3, <2>3, <3>3, <4>1 DEF f, n
    <3>4. CASE a \in DOMAIN assignments
      <4>1. assignments'[a] = assignments[a]
            BY <3>1, <3>2, <3>4
      <4> QED
          BY <2>2, <3>4, <4>1
    <3> QED
        BY <3>1, <3>2, <3>3, <3>4
  <2>4. CASE f.op # "assign"
    <3> HIDE DEF f
    <3>1. assignments' = MarkAll(assignments, f.asgs, "released")
          BY <2>1, <2>4
    <3>2. /\ DOMAIN MarkAll(assignments, f.asgs, "released") = DOMAIN assignments
          /\ \A x \in DOMAIN assignments :
                /\ MarkAll(assignments, f.asgs, "released")[x].broker = assignments[x].broker
                /\ MarkAll(assignments, f.asgs, "released")[x].ip = assignments[x].ip
                /\ MarkAll(assignments, f.asgs, "released")[x].status =
                      IF x \in f.asgs THEN "released" ELSE assignments[x].status
          BY <1>1, MarkAllEffect
    <3> QED
        BY <2>2, <3>1, <3>2
  <2> QED
      BY <2>3, <2>4
<1>4. CASE MarkDraining(t) \/ Abort(t)
  <2>1. PICK status \in {"draining", "active"} :
            /\ assignments' = SetOld(t, status)
            /\ status = "active" => Abort(t)
        BY <1>4 DEF MarkDraining, Abort, Reactivated
  <2>2. /\ DOMAIN assignments' = DOMAIN assignments
        /\ \A x \in DOMAIN assignments :
              /\ assignments'[x].broker = assignments[x].broker
              /\ assignments'[x].ip = assignments[x].ip
              /\ assignments'[x].status = IF f.loaded # status /\ x \in f.asgs THEN status
                                          ELSE assignments[x].status
        BY <2>1, SetOldEffect DEF FrameInv
  <2>3. pc[t] \in Chosen /\ ~Cutover(t)
        BY <1>4 DEF MarkDraining, Abort, Cutover, Chosen, Rotating
  <2>4. \A x \in f.asgs : assignments[x].broker = f.b
        BY <2>3 DEF FrameInv, FramesOK, FrameOK
  <2> QED
      BY <2>1, <2>2, <2>3, <2>4
<1>5. CASE assignments' = assignments /\ ~Cutover(t)
      BY <1>5
<1>6. \/ assignments' = assignments
      \/ Cutover(t) \/ Commit(t) \/ MarkDraining(t) \/ Abort(t)
      BY RequestEffect DEF Begin, Step, RotateStep, Check, Refuse, Call, AllocateFails,
         NoAssignment, ReadAssignment, CreateNewIp, CreateNewIpFails, Rehost, RehostFails,
         Drained, DrainTimesOut, BadConfig, CleanUp,
           CleanUpFails, rows
<1> QED
    BY <1>2, <1>3, <1>4, <1>5, <1>6

\* Nobody else makes an assignment of a broker active while a request has the
\* broker's lock.
LEMMA OthersStayAway ==
    ASSUME FrameInv, LocksHeld, NEW t \in Tasks, Request(t) \/ Step(t), NEW u \in Tasks \ {t},
           pc[u] # "idle", local[u].op \in {"assign", "rotate"},
           NEW a \in DOMAIN assignments', assignments'[a].status = "active",
           assignments'[a].broker = local[u].b
    PROVE  a \in ActiveOf(local[u].b)
<1>1. SUFFICES ASSUME \/ Commit(t) /\ local[t].op = "assign"
                      \/ Cutover(t) \/ Abort(t),
                      assignments'[a].broker = local[t].b
               PROVE  FALSE
      BY BecomesActive DEF ActiveOf, Active
<1>2. pc[t] # "idle" /\ local[t].op \in {"assign", "rotate"}
      BY <1>1 DEF Commit, Cutover, Abort, FrameInv, FramesOK, FrameOK, Rotating
<1> QED
    BY <1>1, <1>2, BrokerExcludes

\* What a request has seen of its broker's assignments stays true.
LEMMA SeesStep ==
    ASSUME FrameInv, OneInv, [Next]_vars
    PROVE  SeesActive'
<1>1. ASSUME NEW t \in Tasks, Request(t) \/ Step(t), NEW u \in Tasks \ {t}
      PROVE  /\ pc'[u] = "commit" /\ local'[u].op = "assign" => ActiveOf(local[u].b)' = {}
             /\ pc'[u] \in Chosen => ActiveOf(local[u].b)' \subseteq local'[u].asgs
  <2>1. pc'[u] = pc[u] /\ local'[u] = local[u]
        BY <1>1, OnlyItsFrame
  <2>2. pc[u] \in Chosen => local[u].op = "rotate" /\ pc[u] # "idle"
        BY DEF FrameInv, FramesOK, FrameOK, Chosen, Rotating
  <2>3. ASSUME pc[u] # "idle", local[u].op \in {"assign", "rotate"}
        PROVE  ActiveOf(local[u].b)' \subseteq ActiveOf(local[u].b)
    <3>1. LocksHeld
          BY DEF OneInv
    <3>2. ASSUME NEW a \in DOMAIN assignments', assignments'[a].status = "active",
                 assignments'[a].broker = local[u].b
          PROVE  a \in ActiveOf(local[u].b)
          BY <1>1, <2>3, <3>1, <3>2, OthersStayAway
    <3> QED
        BY <2>1, <3>2 DEF ActiveOf, Active
  <2> QED
      BY <2>1, <2>2, <2>3 DEF OneInv, SeesActive
<1>2. ASSUME NEW t \in Tasks, Request(t) \/ Step(t)
      PROVE  /\ pc'[t] = "commit" /\ local'[t].op = "assign" => ActiveOf(local[t].b)' = {}
             /\ pc'[t] \in Chosen => ActiveOf(local[t].b)' \subseteq local'[t].asgs
  <2>1. CASE Check(t)
    <3>1. /\ pc'[t] \in {"commit", "call"} /\ local'[t].op = local[t].op
          /\ local'[t].b = local[t].b /\ assignments' = assignments
          BY <2>1, CheckEffect DEF rows
    <3>2. local[t].op = "assign" => ActiveOf(local[t].b) = {}
          BY <2>1 DEF Check, Allowed, NoActiveIp
    <3> QED
        BY <3>1, <3>2 DEF ActiveOf, Active, Chosen, Rotating
  <2>2. CASE Call(t)
    <3>1. pc'[t] = "commit" /\ local'[t].op # "assign"
          BY <2>2 DEF Call, Goto, FrameInv, FramesOK, FrameOK, TypeOK
    <3> QED
        BY <3>1 DEF Chosen, Rotating
  <2>3. CASE ReadAssignment(t)
    <3>1. PICK a \in ActiveOf(local[t].b) :
             /\ pc[t] = "read" /\ pc'[t] = "create" /\ local'[t].b = local[t].b
             /\ local'[t].asgs = {a} /\ assignments' = assignments
          BY <2>3, ReadEffect DEF rows
    <3>2. local[t].b \in Brokers
          BY <3>1 DEF FrameInv, FramesOK, FrameOK, Rotating
    <3>3. ActiveOf(local[t].b) \subseteq {a}
          BY <3>1, <3>2 DEF OneInv, OneActive
    <3> QED
        BY <3>1, <3>3 DEF ActiveOf, Active
  <2>4. CASE \/ CreateNewIp(t) \/ Rehost(t) \/ RehostFails(t) \/ MarkDraining(t)
             \/ Drained(t) \/ DrainTimesOut(t)
             \/ BadConfig(t) /\ UNCHANGED local
    <3>1. /\ pc'[t] # "commit" /\ local'[t].b = local[t].b /\ local'[t].asgs = local[t].asgs
          /\ pc'[t] \in Chosen => pc[t] \in Chosen
          /\ ~Commit(t) /\ ~Cutover(t) /\ ~Abort(t)
      <4>1. CASE CreateNewIp(t) \/ Rehost(t) \/ MarkDraining(t)
        <5>1. /\ pc[t] \in {"create", "rehost", "markDraining"}
              /\ pc'[t] \in {"rehost", "markDraining", "drain"}
              /\ local'[t].b = local[t].b /\ local'[t].asgs = local[t].asgs
              BY <4>1, CreateEffect, RehostEffect, MarkDrainingEffect
        <5> QED
            BY <5>1 DEF Chosen, Rotating, Commit, Cutover, Abort
      <4>2. CASE RehostFails(t) \/ Drained(t) \/ DrainTimesOut(t)
        <5>1. /\ pc[t] \in {"rehost", "drain"} /\ pc'[t] \in {"cleanup", "cutover", "abort"}
              /\ local' = local
              BY <4>2 DEF RehostFails, Drained, DrainTimesOut, Goto, FrameInv, TypeOK
        <5> QED
            BY <5>1 DEF Chosen, Rotating, Commit, Cutover, Abort
      <4>3. CASE BadConfig(t) /\ UNCHANGED local
        <5>1. /\ pc[t] \in {"drain", "cutover", "check"} /\ pc'[t] \in {"cleanup", "idle"}
              /\ pc[t] = "check" => pc'[t] = "idle"
              /\ assignments' = assignments
              BY <4>3 DEF BadConfig, Return, Goto, FrameInv, TypeOK, rows
        <5>2. ~Cutover(t)
          <6>1. ASSUME Cutover(t)
                PROVE  FALSE
            <7>1. Len(assignments) + 1 \in DOMAIN assignments'
                  /\ Len(assignments) + 1 \notin DOMAIN assignments
                  BY <6>1, CutoverEffect
            <7> QED
                BY <5>1, <7>1
          <6> QED
              BY <6>1
        <5> QED
            BY <4>3, <5>1, <5>2 DEF Chosen, Rotating, Commit, Abort
      <4> QED
          BY <2>4, <4>1, <4>2, <4>3
    <3>2. ASSUME NEW a \in DOMAIN assignments', assignments'[a].status = "active",
                 assignments'[a].broker = local[t].b
          PROVE  a \in ActiveOf(local[t].b)
          BY <1>2, <3>1, <3>2, BecomesActive DEF ActiveOf, Active
    <3> QED
        BY <3>1, <3>2 DEF ActiveOf, Active, OneInv, SeesActive
  <2>5. CASE Return(t)
    <3>1. pc'[t] = "idle"
          BY <2>5, ReturnEffect DEF FrameInv
    <3> QED
        BY <3>1 DEF Chosen, Rotating
  <2>6. CASE Request(t)
    <3>1. PICK f \in Frame : Begin(t, f)
          BY <2>6, RequestEffect
    <3>2. pc'[t] \in {"read", "call", "check"}
          BY <3>1, BeginEffect DEF FrameInv
    <3> QED
        BY <3>2 DEF Chosen, Rotating
  <2> QED
      BY <1>2, <2>1, <2>2, <2>3, <2>4, <2>5, <2>6 DEF Step, RotateStep, Refuse, AllocateFails,
         Commit, NoAssignment, CreateNewIpFails, BadConfig, Abort, Cutover, CleanUp,
         CleanUpFails
<1>3. CASE \E t \in Tasks : Request(t) \/ Step(t)
      BY <1>1, <1>2, <1>3 DEF SeesActive
<1>4. CASE Crash
  <2>1. \A t \in Tasks : pc'[t] = "idle"
        BY <1>4 DEF Crash
  <2> QED
      BY <2>1 DEF SeesActive, Chosen, Rotating
<1>5. CASE Environment \/ UNCHANGED vars
  <2>1. UNCHANGED <<pc, local, assignments>>
        BY <1>5 DEF vars, Environment, RouteOrder, SendOrder, EndOrder, CooldownEnds,
           LockExpires, Destroy, rows
  <2> QED
      BY <2>1 DEF OneInv, SeesActive, ActiveOf, Active
<1> QED
    BY <1>3, <1>4, <1>5 DEF Next

\* A broker has one active assignment at most after every step, if it has
\* before: who adds one has the broker's lock and has seen what else is active.
LEMMA OneStep ==
    ASSUME FrameInv, OneInv, [Next]_vars
    PROVE  OneActive'
<1>1. ASSUME NEW t \in Tasks, Request(t) \/ Step(t)
      PROVE  OneActive'
  <2> DEFINE x == Len(assignments) + 1
  <2>1. ASSUME NEW b \in Brokers, NEW a \in ActiveOf(b)', NEW c \in ActiveOf(b)'
        PROVE  a = c
    <3>1. /\ a \in DOMAIN assignments' /\ assignments'[a].status = "active"
          /\ assignments'[a].broker = b
          /\ c \in DOMAIN assignments' /\ assignments'[c].status = "active"
          /\ assignments'[c].broker = b
          BY <2>1 DEF ActiveOf, Active
    <3>2. ASSUME NEW d \in DOMAIN assignments', assignments'[d].status = "active",
                 assignments'[d].broker = b
          PROVE  \/ d \in ActiveOf(b) /\ (Cutover(t) => d \notin local[t].asgs)
                 \/ /\ (Commit(t) /\ local[t].op = "assign") \/ Cutover(t)
                    /\ d = x /\ local[t].b = b
                 \/ Abort(t) /\ d \in local[t].asgs /\ local[t].b = b
          BY <1>1, <3>2, BecomesActive DEF ActiveOf, Active
    <3>3. /\ Commit(t) => pc[t] = "commit"
          /\ Cutover(t) => pc[t] = "cutover"
          /\ Abort(t) => pc[t] = "abort"
          BY DEF Commit, Cutover, Abort
    <3>4. Commit(t) /\ local[t].op = "assign" => ActiveOf(local[t].b) = {}
          BY <3>3 DEF OneInv, SeesActive
    <3>5. Cutover(t) \/ Abort(t) => ActiveOf(local[t].b) \subseteq local[t].asgs
          BY <3>3 DEF OneInv, SeesActive, Chosen, Rotating
    <3>6. Abort(t) => \A d, e \in local[t].asgs : d = e
          BY <3>3 DEF FrameInv, FramesOK, FrameOK, Chosen, Rotating
    <3>7. \A d, e \in ActiveOf(b) : d = e
          BY <2>1 DEF OneInv, OneActive
    <3> HIDE DEF x
    <3>8. CASE Abort(t)
          BY <3>1, <3>2, <3>3, <3>5, <3>6, <3>7, <3>8
    <3>9. CASE ~Abort(t)
          BY <3>1, <3>2, <3>4, <3>5, <3>7, <3>9
    <3> QED
        BY <3>8, <3>9
  <2> QED
      BY <2>1 DEF OneActive
<1>2. CASE UNCHANGED assignments
      BY <1>2 DEF OneInv, OneActive, ActiveOf, Active
<1>3. \/ UNCHANGED assignments
      \/ \E t \in Tasks : Request(t) \/ Step(t)
      BY DEF Next, vars, Crash, Environment, RouteOrder, SendOrder, EndOrder, CooldownEnds,
         LockExpires, Destroy, rows
<1> QED
    BY <1>1, <1>2, <1>3

\* While locks last, OneInv holds in every state.
LEMMA OneInvariant == ASSUME ~LocksExpire PROVE Spec => []OneInv
<1>1. Init => OneInv
  <2>1. Init => LocksHeld /\ SeesActive
        BY DEF Init, LocksHeld, SeesActive, Chosen, Rotating
  <2>2. Init => OneActive
        BY DEF Init, OneActive, ActiveOf
  <2> QED
      BY <2>1, <2>2 DEF OneInv
<1>2. FrameInv /\ OneInv /\ [Next]_vars => OneInv'
      BY LocksStep, SeesStep, OneStep DEF OneInv
<1> QED
    BY <1>1, <1>2, FrameInvariant, PTL DEF Spec

\* "Broker already has an active IP assignment" (ip_manager/service.py:287): as
\* long as no request outlives its lock, a broker has one active IP at most,
\* through assigning, releasing, rotating and crashing in any order.
THEOREM OneActiveIp == ASSUME ~LocksExpire PROVE Spec => []OneActivePerBroker
<1>1. OneInv => OneActivePerBroker
  <2> SUFFICES ASSUME OneInv, NEW b \in Brokers
               PROVE  Cardinality(ActiveOf(b)) <= 1
      BY DEF OneActivePerBroker
  <2>1. CASE ActiveOf(b) = {}
        BY <2>1, FS_EmptySet
  <2>2. CASE ActiveOf(b) # {}
    <3>1. PICK a \in ActiveOf(b) : TRUE
          BY <2>2
    <3>2. \A c \in ActiveOf(b) : c = a
          BY <3>1 DEF OneInv, OneActive
    <3>3. ActiveOf(b) = {a}
          BY <3>1, <3>2
    <3>4. Cardinality({a}) = 1
          BY FS_Singleton
    <3>5. Cardinality(ActiveOf(b)) = 1
          BY <3>3, <3>4
    <3> QED
        BY <3>5
  <2> QED
      BY <2>1, <2>2
<1> QED
    BY <1>1, OneInvariant, PTL

-----------------------------------------------------------------------------
(* The operations on one IP, while nobody rotates and locks last.          *)

\* Without rotation a request is about its IP, and holds that IP's lock unless
\* it has drawn the IP itself.
LEMMA QuietRequest ==
    ASSUME FrameInv, LocksHeld, NoRotation, NEW t \in Tasks, pc[t] # "idle"
    PROVE  /\ pc[t] \in {"check", "call", "commit"} /\ local[t].i \in Ips
           /\ local[t].op \in IpOps \cup {"allocate"}
           /\ local[t].op \in IpOps => lock[IpLock(local[t].i)] = t
<1>1. pc[t] \in {"check", "call", "commit"}
      BY DEF FrameInv, TypeOK, NoRotation, Pcs
<1>2. local[t].i \in Ips /\ local[t].op \in IpOps \cup {"allocate"}
      BY <1>1 DEF FrameInv, FramesOK, FrameOK
<1> QED
    BY <1>1, <1>2, KeysOf DEF LocksHeld

\* Without rotation a step is one of these.
LEMMA QuietSteps ==
    ASSUME NoRotation, NEW t \in Tasks, Step(t)
    PROVE  \/ Check(t) \/ Call(t) \/ Commit(t)
           \/ Refuse(t) \/ AllocateFails(t)
           \/ BadConfig(t) /\ Return(t) /\ pc[t] = "check"
BY DEF Step, RotateStep, NoRotation, Rotating, NoAssignment, ReadAssignment, CreateNewIp,
       CreateNewIpFails, Rehost, RehostFails, MarkDraining, Drained, DrainTimesOut, BadConfig,
       Abort, Cutover, CleanUp,
         CleanUpFails

\* Nobody begins to rotate and nothing begins to drain.
LEMMA NoRotationStep ==
    ASSUME "rotate" \notin Ops, FrameInv, NoRotation, [Next]_vars
    PROVE  NoRotation'
<1>1. ASSUME NEW t \in Tasks, Request(t)
      PROVE  NoRotation'
  <2>1. PICK f \in Frame : Begin(t, f)
        BY <1>1, RequestEffect
  <2>2. f.op # "rotate"
        BY <2>1 DEF Begin
  <2>3. /\ pc'[t] \in {"call", "check"} /\ assignments' = assignments
        /\ \A u \in Tasks \ {t} : pc'[u] = pc[u]
        BY <2>1, <2>2, BeginEffect DEF FrameInv, rows
  <2> QED
      BY <2>3 DEF NoRotation, Rotating
<1>2. ASSUME NEW t \in Tasks, Step(t)
      PROVE  NoRotation'
  <2>1. \A u \in Tasks \ {t} : pc'[u] = pc[u]
        BY <1>2, OnlyItsFrame
  <2>2. pc'[t] \in {"idle", "check", "call", "commit"}
    <3>1. CASE Check(t)
          BY <3>1, CheckEffect
    <3>2. CASE Call(t)
          BY <3>2 DEF Call, Goto, FrameInv, TypeOK
    <3>3. CASE Return(t)
          BY <3>3, ReturnEffect DEF FrameInv
    <3> QED
        BY <1>2, <3>1, <3>2, <3>3, QuietSteps DEF Commit, Refuse, AllocateFails
  <2>3. \A a \in DOMAIN assignments' : assignments'[a].status # "draining"
    <3>1. CASE Commit(t)
          BY <3>1, CommitDrains DEF NoRotation
    <3>2. CASE ~Commit(t)
      <4>1. assignments' = assignments
            BY <1>2, <3>2, QuietSteps DEF Check, Call, Refuse, AllocateFails, BadConfig, rows
      <4> QED
          BY <4>1 DEF NoRotation
    <3> QED
        BY <3>1, <3>2
  <2> QED
      BY <2>1, <2>2, <2>3 DEF NoRotation, Rotating
<1>3. CASE Crash
  <2>1. (\A t \in Tasks : pc'[t] = "idle") /\ assignments' = assignments
        BY <1>3 DEF Crash, rows
  <2> QED
      BY <2>1 DEF NoRotation, Rotating
<1>4. CASE Environment \/ UNCHANGED vars
  <2>1. UNCHANGED <<pc, assignments>>
        BY <1>4 DEF vars, Environment, RouteOrder, SendOrder, EndOrder, CooldownEnds,
           LockExpires, Destroy, rows
  <2> QED
      BY <2>1 DEF NoRotation
<1> QED
    BY <1>1, <1>2, <1>3, <1>4 DEF Next

\* Nobody asks for an IP that another request is about: the IP's lock is taken,
\* or the IP is not there yet.
LEMMA NobodyElse ==
    ASSUME FrameInv, LocksHeld, QuietInv, NEW t \in Tasks, NEW f \in Frame, Begin(t, f),
           f.op \in IpOps \cup {"allocate"},
           f.op = "allocate" => Unused(f.i),
           f.op # "allocate" => ips[f.i].status # "absent",
           NEW u \in Tasks, pc[u] # "idle"
    PROVE  local[u].i # f.i
<1> SUFFICES ASSUME local[u].i = f.i
             PROVE  FALSE
    OBVIOUS
<1>1. f.op \in IpOps
  <2>1. f.op # "allocate"
        BY DEF Unused
  <2> QED
      BY <2>1
<1>2. /\ pc[u] \in {"check", "call", "commit"} /\ local[u].op \in IpOps \cup {"allocate"}
      /\ local[u].op \in IpOps => lock[IpLock(f.i)] = u
      BY QuietRequest DEF QuietInv
<1>3. CASE local[u].op = "allocate"
  <2>1. pc[u] \in {"call", "commit"}
        BY <1>2, <1>3 DEF FrameInv, FramesOK, FrameOK
  <2>2. ips[f.i] = AbsentIp
        BY <1>3, <2>1 DEF QuietInv, AllFresh, Fresh
  <2> QED
      BY <1>1, <2>2 DEF AbsentIp, IpOps
<1>4. CASE local[u].op \in IpOps
  <2>1. IpLock(f.i) \in LocksOf(f)
        BY <1>1 DEF LocksOf, IpOps
  <2>2. lock[IpLock(f.i)] = None
        BY <2>1, BeginEffect DEF FrameInv
  <2> QED
      BY <1>2, <1>4, <2>2, IpAssumption
<1> QED
    BY <1>2, <1>3, <1>4

\* No two requests get to be about one IP.
LEMMA ApartStep ==
    ASSUME FrameInv, LocksHeld, QuietInv, "rotate" \notin Ops, [Next]_vars
    PROVE  Apart'
<1>1. ASSUME NEW t \in Tasks, Request(t)
      PROVE  Apart'
  <2>1. PICK f \in Frame :
           /\ Begin(t, f)
           /\ \/ /\ f.op \in IpOps \cup {"allocate"} /\ f.i \in Ips
                 /\ f.op = "allocate" => Unused(f.i)
                 /\ f.op # "allocate" => ips[f.i].status # "absent"
              \/ f.op = "rotate"
        BY <1>1, RequestEffect
  <2>2. f.op # "rotate"
        BY <2>1 DEF Begin
  <2>3. /\ local'[t] = f
        /\ \A u \in Tasks \ {t} : pc'[u] = pc[u] /\ local'[u] = local[u]
        BY <2>1, BeginEffect DEF FrameInv
  <2>4. \A u \in Tasks \ {t} : pc[u] # "idle" => local[u].i # f.i
        BY <2>1, <2>2, NobodyElse
  <2> QED
      BY <2>3, <2>4 DEF QuietInv, Apart
<1>2. ASSUME NEW t \in Tasks, Step(t)
      PROVE  Apart'
  <2>1. \A u \in Tasks \ {t} : pc'[u] = pc[u] /\ local'[u] = local[u]
        BY <1>2, OnlyItsFrame
  <2>2. pc'[t] = "idle" \/ (pc[t] # "idle" /\ local'[t].i = local[t].i)
    <3>1. CASE Check(t)
          BY <3>1, CheckEffect
    <3>2. CASE Call(t)
          BY <3>2 DEF Call
    <3>3. CASE Return(t)
          BY <3>3, ReturnEffect DEF FrameInv
    <3> QED
        BY <1>2, <3>1, <3>2, <3>3, QuietSteps DEF Commit, Refuse, AllocateFails, QuietInv
  <2> QED
      BY <2>1, <2>2 DEF QuietInv, Apart
<1>3. CASE Crash
  <2>1. \A t \in Tasks : pc'[t] = "idle"
        BY <1>3 DEF Crash
  <2> QED
      BY <2>1 DEF Apart
<1>4. CASE Environment \/ UNCHANGED vars
  <2>1. UNCHANGED <<pc, local>>
        BY <1>4 DEF vars, Environment, RouteOrder, SendOrder, EndOrder, CooldownEnds,
           LockExpires, Destroy, rows
  <2> QED
      BY <2>1 DEF QuietInv, Apart
<1> QED
    BY <1>1, <1>2, <1>3, <1>4 DEF Next

\* The row that an operation writes names an instance exactly if it is attached.
LEMMA ChangedConsistent ==
    ASSUME NEW f \in Frame, f.op \in IpOps \cup {"allocate"},
           f.op = "attach" => f.n \in Instances,
           f.view.status = "attached" <=> f.view.inst # None,
           f.op \in {"assign", "release"} => f.view.status # "attached"
    PROVE  /\ Changed(f).status = "attached" <=> Changed(f).inst # None
           /\ Changed(f).status = "attached" <=> f.op = "attach"
           /\ f.op # "release" => Changed(f).status # "released"
<1>1. f.view \in IpRow
      BY DEF Frame
<1>2. CASE f.op = "assign"
  <2>1. /\ [f.view EXCEPT !.status = "allocated"].status = "allocated"
        /\ [f.view EXCEPT !.status = "allocated"].inst = f.view.inst
        BY <1>1 DEF IpRow
  <2> QED
      BY <1>2, <2>1 DEF Changed
<1>3. CASE f.op = "release"
  <2>1. /\ [f.view EXCEPT !.status = "released"].status = "released"
        /\ [f.view EXCEPT !.status = "released"].inst = f.view.inst
        BY <1>1 DEF IpRow
  <2> QED
      BY <1>3, <2>1 DEF Changed
<1>4. CASE f.op \in {"allocate", "detach"}
      BY <1>4 DEF Changed
<1>5. CASE f.op = "attach"
      BY <1>5, IpAssumption DEF Changed
<1> QED
    BY <1>2, <1>3, <1>4, <1>5 DEF IpOps

\* What a commit does when nobody else touches the IP: its row becomes what the
\* operation makes of it.
LEMMA QuietCommit ==
    ASSUME FrameInv, QuietInv, NEW t \in Tasks, Commit(t)
    PROVE  LET f == local[t] IN
           /\ pc[t] = "commit" /\ f \in Frame /\ f.i \in Ips
           /\ f.op \in IpOps \cup {"allocate"} /\ Fresh(t)
           /\ f.op = "assign" => f.b \in Brokers
           /\ f.op = "attach" => f.n \in Instances
           /\ f.view.status = "attached" <=> f.view.inst # None
           /\ f.op \in {"assign", "release"} => f.view.status # "attached"
           /\ \A j \in Ips \ {f.i} : ips'[j] = ips[j]
           /\ ips'[f.i].status = Changed(f).status /\ ips'[f.i].inst = Changed(f).inst
<1> DEFINE f == local[t]
<1>1. /\ pc[t] = "commit" /\ f \in Frame /\ f.i \in Ips
      /\ f.op \in IpOps \cup {"allocate"}
      /\ f.op = "assign" => f.b \in Brokers
      /\ f.op = "attach" => f.n \in Instances
      /\ ips' = [ips EXCEPT ![f.i] = Flush(ips[f.i], f.view, Changed(f))]
      BY CommitEffect
<1>2. Fresh(t)
      BY <1>1 DEF QuietInv, AllFresh
<1>3. /\ f.view = ips[f.i]
      /\ f.op \in {"assign", "release"} => f.view.status # "attached"
      /\ f.view.status = "attached" <=> f.view.inst # None
      BY <1>1, <1>2 DEF Fresh, QuietInv, InstanceIffAttached
<1> HIDE DEF f
<1>4. /\ ips'[f.i] = Flush(f.view, f.view, Changed(f))
      /\ \A j \in Ips \ {f.i} : ips'[j] = ips[j]
      BY <1>1, <1>3 DEF FrameInv, TypeOK
<1>5. /\ Flush(f.view, f.view, Changed(f)).status = Changed(f).status
      /\ Flush(f.view, f.view, Changed(f)).inst = Changed(f).inst
      BY DEF Flush
<1> QED
    BY <1>1, <1>2, <1>3, <1>4, <1>5 DEF f

\* What a commit does to the assignments and the usage rows.
LEMMA QuietHistory ==
    ASSUME FrameInv, NEW t \in Tasks, Commit(t)
    PROVE  LET f == local[t] n == Len(assignments) + 1 IN
           /\ f.op = "assign" =>
                 /\ DOMAIN assignments' = DOMAIN assignments \cup {n}
                 /\ n \notin DOMAIN assignments
                 /\ \A a \in DOMAIN assignments : assignments'[a] = assignments[a]
                 /\ assignments'[n].broker = f.b /\ assignments'[n].ip = f.i
                 /\ assignments'[n].status = "active"
                 /\ open' = open \cup {<<f.b, f.i>>} /\ cooling' = cooling
           /\ f.op # "assign" =>
                 /\ DOMAIN assignments' = DOMAIN assignments
                 /\ \A a \in DOMAIN assignments :
                       /\ assignments'[a].broker = assignments[a].broker
                       /\ assignments'[a].ip = assignments[a].ip
                       /\ assignments'[a].status = IF a \in f.asgs THEN "released"
                                                   ELSE assignments[a].status
                 /\ open' = open \ {PairOf(a) : a \in f.asgs}
                 /\ cooling' = cooling \cup ({PairOf(a) : a \in f.asgs} \cap open)
<1> DEFINE f == local[t]
           n == Len(assignments) + 1
<1>1. /\ f.op = "assign" => f.b \in Brokers
      /\ f.i \in Ips
      /\ f.op = "assign" => assignments' = Add(assignments, f.b, f.i)
      /\ f.op # "assign" => assignments' = MarkAll(assignments, f.asgs, "released")
      BY CommitEffect
<1>2. assignments \in Seq(Assignment)
      BY DEF FrameInv, TypeOK
<1>3. /\ f.op = "assign" => open' = open \cup {<<f.b, f.i>>} /\ cooling' = cooling
      /\ f.op # "assign" => Close({PairOf(a) : a \in f.asgs})
      BY DEF Commit, Loaded
<1> HIDE DEF f
<1>4. ASSUME f.op = "assign"
      PROVE  /\ DOMAIN assignments' = DOMAIN assignments \cup {n}
             /\ n \notin DOMAIN assignments
             /\ \A a \in DOMAIN assignments : assignments'[a] = assignments[a]
             /\ assignments'[n].broker = f.b /\ assignments'[n].ip = f.i
             /\ assignments'[n].status = "active"
  <2>0. f.b \in Brokers /\ f.i \in Ips /\ assignments' = Add(assignments, f.b, f.i)
        BY <1>1, <1>4
  <2>1. /\ DOMAIN Add(assignments, f.b, f.i) = DOMAIN assignments \cup {n}
        /\ n \notin DOMAIN assignments
        /\ \A a \in DOMAIN assignments : Add(assignments, f.b, f.i)[a] = assignments[a]
        /\ Add(assignments, f.b, f.i)[n] = [broker |-> f.b, ip |-> f.i, status |-> "active"]
        BY <1>2, <2>0, AddEffect, Zenon
  <2> HIDE DEF n
  <2> QED
      BY <2>0, <2>1
<1>5. ASSUME f.op # "assign"
      PROVE  /\ DOMAIN assignments' = DOMAIN assignments
             /\ \A a \in DOMAIN assignments :
                   /\ assignments'[a].broker = assignments[a].broker
                   /\ assignments'[a].ip = assignments[a].ip
                   /\ assignments'[a].status = IF a \in f.asgs THEN "released"
                                               ELSE assignments[a].status
  <2>1. assignments' = MarkAll(assignments, f.asgs, "released")
        BY <1>1, <1>5
  <2>2. /\ DOMAIN MarkAll(assignments, f.asgs, "released") = DOMAIN assignments
        /\ \A a \in DOMAIN assignments :
              /\ MarkAll(assignments, f.asgs, "released")[a].broker = assignments[a].broker
              /\ MarkAll(assignments, f.asgs, "released")[a].ip = assignments[a].ip
              /\ MarkAll(assignments, f.asgs, "released")[a].status =
                    IF a \in f.asgs THEN "released" ELSE assignments[a].status
        BY <1>2, MarkAllEffect
  <2> QED
      BY <2>1, <2>2
<1> HIDE DEF n
<1> QED
    BY <1>3, <1>4, <1>5 DEF f, n, Close

\* The status of an assignment while nobody rotates.
LEMMA QuietStatus ==
    ASSUME FrameInv, NoRotation, NEW a \in DOMAIN assignments
    PROVE  /\ assignments[a].status = "active" \/ assignments[a].status = "released"
           /\ assignments[a].broker \in Brokers /\ assignments[a].ip \in Ips
<1>1. assignments[a] \in Assignment
      BY DEF FrameInv, TypeOK
<1> QED
    BY <1>1 DEF Assignment, NoRotation

\* A usage row is opened with the assignment and closed with it.
LEMMA HistoryStep ==
    ASSUME FrameInv, QuietInv, NEW t \in Tasks, Commit(t)
    PROVE  HistoryMatches'
<1> DEFINE f == local[t]
           n == Len(assignments) + 1
<1>1. open = {PairOf(a) : a \in {a \in DOMAIN assignments : assignments[a].status # "released"}}
      BY DEF QuietInv, HistoryMatches
<1>2. CASE f.op = "assign"
  <2>1. /\ DOMAIN assignments' = DOMAIN assignments \cup {n}
        /\ n \notin DOMAIN assignments
        /\ \A a \in DOMAIN assignments : assignments'[a] = assignments[a]
        /\ assignments'[n].broker = f.b /\ assignments'[n].ip = f.i
        /\ assignments'[n].status = "active"
        /\ open' = open \cup {<<f.b, f.i>>}
        BY <1>2, QuietHistory
  <2> HIDE DEF n, f
  <2>2. ASSUME NEW p
        PROVE  p \in open' <=> \E a \in DOMAIN assignments' :
                  /\ assignments'[a].status # "released"
                  /\ p = <<assignments'[a].broker, assignments'[a].ip>>
    <3>1. p \in open <=> \E a \in DOMAIN assignments :
                  /\ assignments[a].status # "released"
                  /\ p = <<assignments[a].broker, assignments[a].ip>>
          BY <1>1 DEF PairOf
    <3> QED
        BY <2>1, <3>1
  <2> QED
      BY <2>2 DEF HistoryMatches, PairOf
<1>3. CASE f.op # "assign"
  <2>1. /\ DOMAIN assignments' = DOMAIN assignments
        /\ \A a \in DOMAIN assignments :
              /\ assignments'[a].broker = assignments[a].broker
              /\ assignments'[a].ip = assignments[a].ip
              /\ assignments'[a].status = IF a \in f.asgs THEN "released"
                                          ELSE assignments[a].status
        /\ open' = open \ {PairOf(a) : a \in f.asgs}
        BY <1>3, QuietHistory
  <2>2. f.asgs = {} \/ f.asgs = ActiveOn(f.i)
        BY QuietCommit DEF Fresh
  <2> HIDE DEF f
  <2>3. ASSUME NEW p
        PROVE  p \in open' <=> \E a \in DOMAIN assignments' :
                  /\ assignments'[a].status # "released"
                  /\ p = <<assignments'[a].broker, assignments'[a].ip>>
    <3>1. p \in open <=> \E a \in DOMAIN assignments :
                  /\ assignments[a].status # "released"
                  /\ p = <<assignments[a].broker, assignments[a].ip>>
          BY <1>1 DEF PairOf
    <3>2. p \in {PairOf(a) : a \in f.asgs} <=>
              \E a \in f.asgs : p = <<assignments[a].broker, assignments[a].ip>>
          BY DEF PairOf
    <3>3. \A a, c \in DOMAIN assignments :
              /\ a \in f.asgs /\ assignments[c].status # "released"
              /\ assignments[a].ip = assignments[c].ip
              => c \in f.asgs
          BY <2>2, QuietStatus DEF ActiveOn, Active, QuietInv
    <3>4. \A a \in f.asgs : a \in DOMAIN assignments
          BY <2>2 DEF ActiveOn
    <3>5. CASE p \in {PairOf(a) : a \in f.asgs}
      <4>1. PICK a \in f.asgs : p = <<assignments[a].broker, assignments[a].ip>>
            BY <3>2, <3>5
      <4>2. p \notin open'
            BY <2>1, <3>5
      <4>3. ASSUME NEW c \in DOMAIN assignments', assignments'[c].status # "released",
                   p = <<assignments'[c].broker, assignments'[c].ip>>
            PROVE  FALSE
        <5>1. c \notin f.asgs /\ assignments[c].status # "released"
              BY <2>1, <4>3
        <5>2. assignments[a].ip = assignments[c].ip
              BY <2>1, <4>1, <4>3
        <5> QED
            BY <2>1, <3>3, <3>4, <5>1, <5>2
      <4> QED
          BY <4>2, <4>3
    <3>6. CASE p \notin {PairOf(a) : a \in f.asgs}
      <4>1. p \in open' <=> p \in open
            BY <2>1, <3>6
      <4>2. \A a \in f.asgs : p # <<assignments[a].broker, assignments[a].ip>>
            BY <3>2, <3>6
      <4>3. \A a \in DOMAIN assignments :
               /\ assignments'[a].status # "released" => assignments[a].status # "released"
               /\ /\ assignments[a].status # "released"
                  /\ p = <<assignments[a].broker, assignments[a].ip>>
                  => assignments'[a].status # "released"
            BY <2>1, <4>2
      <4> QED
          BY <2>1, <3>1, <4>1, <4>3
    <3> QED
        BY <3>5, <3>6
  <2> QED
      BY <2>3 DEF HistoryMatches, PairOf
<1> QED
    BY <1>2, <1>3

\* A row names an instance exactly if it is attached, after a commit too.
LEMMA ConsistentStep ==
    ASSUME FrameInv, QuietInv, NEW t \in Tasks, Commit(t)
    PROVE  InstanceIffAttached'
<1> DEFINE f == local[t]
<1>1. /\ f \in Frame /\ f.op \in IpOps \cup {"allocate"}
      /\ f.op = "attach" => f.n \in Instances
      /\ f.view.status = "attached" <=> f.view.inst # None
      /\ f.op \in {"assign", "release"} => f.view.status # "attached"
      /\ \A j \in Ips \ {f.i} : ips'[j] = ips[j]
      /\ ips'[f.i].status = Changed(f).status /\ ips'[f.i].inst = Changed(f).inst
      BY QuietCommit
<1> HIDE DEF f
<1>2. Changed(f).status = "attached" <=> Changed(f).inst # None
      BY <1>1, ChangedConsistent
<1>3. \A j \in Ips : ips[j].status = "attached" <=> ips[j].inst # None
      BY DEF QuietInv, InstanceIffAttached
<1>4. ASSUME NEW j \in Ips
      PROVE  ips'[j].status = "attached" <=> ips'[j].inst # None
  <2>1. CASE j = f.i
        BY <1>1, <1>2, <2>1
  <2>2. CASE j # f.i
        BY <1>1, <1>3, <2>2
  <2> QED
      BY <2>1, <2>2
<1> QED
    BY <1>4 DEF InstanceIffAttached

\* The IP that a commit assigns is not a released one, and no assignment of an
\* IP that it releases stays active.
LEMMA UsableStep ==
    ASSUME FrameInv, QuietInv, NEW t \in Tasks, Commit(t)
    PROVE  ActiveIpUsable'
<1> DEFINE f == local[t]
           n == Len(assignments) + 1
<1>1. /\ f \in Frame /\ f.op \in IpOps \cup {"allocate"}
      /\ f.op = "attach" => f.n \in Instances
      /\ f.view.status = "attached" <=> f.view.inst # None
      /\ f.op \in {"assign", "release"} => f.view.status # "attached"
      /\ \A j \in Ips \ {f.i} : ips'[j] = ips[j]
      /\ ips'[f.i].status = Changed(f).status /\ f.i \in Ips /\ Fresh(t)
      BY QuietCommit
<1>2. /\ f.op = "assign" =>
            /\ DOMAIN assignments' = DOMAIN assignments \cup {n}
            /\ \A a \in DOMAIN assignments : assignments'[a] = assignments[a]
            /\ assignments'[n].ip = f.i
      /\ f.op # "assign" =>
            /\ DOMAIN assignments' = DOMAIN assignments
            /\ \A a \in DOMAIN assignments :
                  /\ assignments'[a].ip = assignments[a].ip
                  /\ assignments'[a].status = IF a \in f.asgs THEN "released"
                                              ELSE assignments[a].status
      BY QuietHistory
<1>3. f.op = "release" => f.asgs = ActiveOn(f.i)
      BY <1>1 DEF Fresh
<1> HIDE DEF f, n
<1>4. f.op # "release" => ips'[f.i].status # "released"
      BY <1>1, ChangedConsistent
<1>5. \A a \in DOMAIN assignments :
          assignments[a].status = "active" =>
              ips[assignments[a].ip].status # "released" /\ assignments[a].ip \in Ips
      BY QuietStatus DEF QuietInv, ActiveIpUsable, Active
<1>6. ASSUME NEW a \in DOMAIN assignments', assignments'[a].status = "active"
      PROVE  ips'[assignments'[a].ip].status # "released"
  <2>1. CASE f.op = "assign" /\ a = n
        BY <1>2, <1>4, <2>1
  <2>2. CASE a \in DOMAIN assignments
    <3>1. /\ assignments[a].status = "active" /\ assignments'[a].ip = assignments[a].ip
          /\ f.op # "assign" => a \notin f.asgs
      <4>1. CASE f.op = "assign"
            BY <1>2, <1>6, <2>2, <4>1
      <4>2. CASE f.op # "assign"
            BY <1>2, <1>6, <2>2, <4>2
      <4> QED
          BY <4>1, <4>2
    <3>2. CASE assignments[a].ip = f.i
      <4>1. f.op # "release"
            BY <1>3, <2>2, <3>1, <3>2 DEF ActiveOn, Active
      <4> QED
          BY <1>4, <3>1, <3>2, <4>1
    <3>3. CASE assignments[a].ip # f.i
          BY <1>1, <1>5, <2>2, <3>1, <3>3
    <3> QED
        BY <3>2, <3>3
  <2> QED
      BY <1>2, <2>1, <2>2
<1> QED
    BY <1>6 DEF ActiveIpUsable, Active

\* What the provider says of an IP stays right while neither it nor the rows
\* change and nobody returns from a commit.
LEMMA CloudKept ==
    ASSUME CloudInv, UNCHANGED <<ips, cloud, faults>>,
           \A t \in Tasks : pc[t] = "commit" => pc'[t] = "commit" /\ local'[t].i = local[t].i
    PROVE  CloudInv'
BY DEF CloudInv

\* A call changes the provider's status of an IP whose commit is to follow, a
\* commit the row.
LEMMA CloudStep ==
    ASSUME FrameInv, LocksHeld, QuietInv, "rotate" \notin Ops, [Next]_vars
    PROVE  CloudInv'
<1>0. faults \in Nat
      BY IpAssumption DEF FrameInv, TypeOK
<1>1. ASSUME NEW t \in Tasks, Request(t)
      PROVE  CloudInv'
  <2>1. PICK f \in Frame : Begin(t, f)
        BY <1>1, RequestEffect
  <2>2. /\ UNCHANGED <<ips, cloud, faults>> /\ pc[t] = "idle"
        /\ \A u \in Tasks \ {t} : pc'[u] = pc[u] /\ local'[u] = local[u]
        BY <2>1, BeginEffect DEF FrameInv, rows, Begin
  <2> QED
      BY <2>2, CloudKept DEF QuietInv
<1>2. ASSUME NEW t \in Tasks, Call(t)
      PROVE  CloudInv'
  <2> DEFINE f == local[t]
  <2>1. /\ pc[t] = "call" /\ pc'[t] = "commit" /\ local' = local /\ UNCHANGED <<ips, faults>>
        /\ \A u \in Tasks \ {t} : pc'[u] = pc[u]
        /\ cloud' = Provide(f.i, Provided(f.op))
        BY <1>2 DEF Call, Goto, FrameInv, TypeOK, rows
  <2>2. \A j \in Ips \ {f.i} : cloud'[j] = cloud[j]
        BY <2>1 DEF Provide, FrameInv, TypeOK
  <2>3. ASSUME faults' = 0, NEW j \in Ips,
               \A u \in Tasks : pc'[u] = "commit" => local'[u].i # j
        PROVE  cloud'[j] = "attached" <=> ips'[j].status = "attached"
    <3>1. j # f.i /\ \A u \in Tasks : pc[u] = "commit" => local[u].i # j
          BY <2>1, <2>3
    <3>2. cloud[j] = "attached" <=> ips[j].status = "attached"
          BY <2>1, <2>3, <3>1 DEF QuietInv, CloudInv
    <3> QED
        BY <2>1, <2>2, <3>1, <3>2
  <2> QED
      BY <2>3 DEF CloudInv
<1>3. ASSUME NEW t \in Tasks, Commit(t)
      PROVE  CloudInv'
  <2> DEFINE f == local[t]
  <2>1. /\ pc[t] = "commit" /\ f.i \in Ips /\ Fresh(t)
        /\ \A j \in Ips \ {f.i} : ips'[j] = ips[j]
        /\ ips'[f.i].status = Changed(f).status
        BY <1>3, QuietCommit
  <2>2. UNCHANGED <<cloud, faults>>
        BY <1>3, CommitEffect
  <2>3. \A u \in Tasks \ {t} : pc'[u] = pc[u] /\ local'[u] = local[u]
        BY <1>3, OnlyItsFrame DEF Step
  <2>4. ASSUME faults' = 0, NEW j \in Ips,
               \A u \in Tasks : pc'[u] = "commit" => local'[u].i # j
        PROVE  cloud'[j] = "attached" <=> ips'[j].status = "attached"
    <3>1. CASE j = f.i
          BY <2>1, <2>2, <2>4, <3>1 DEF Fresh
    <3>2. CASE j # f.i
      <4>1. \A u \in Tasks : pc[u] = "commit" => local[u].i # j
            BY <2>3, <2>4, <3>2
      <4>2. cloud[j] = "attached" <=> ips[j].status = "attached"
            BY <2>2, <2>4, <4>1 DEF QuietInv, CloudInv
      <4> QED
          BY <2>1, <2>2, <3>2, <4>2
    <3> QED
        BY <3>1, <3>2
  <2> QED
      BY <2>4 DEF CloudInv
<1>4. ASSUME NEW t \in Tasks, Check(t) \/ Refuse(t) \/ AllocateFails(t)
      PROVE  CloudInv'
  <2>1. /\ UNCHANGED <<ips, cloud, faults>> /\ pc[t] # "commit"
        BY <1>4 DEF Check, Refuse, AllocateFails, rows
  <2>2. \A u \in Tasks \ {t} : pc'[u] = pc[u] /\ local'[u] = local[u]
        BY <1>4, OnlyItsFrame DEF Step
  <2> QED
      BY <2>1, <2>2, CloudKept DEF QuietInv
<1>5. CASE Crash \/ \E t \in Tasks : BadConfig(t)
      BY <1>0, <1>5 DEF Crash, BadConfig, CloudInv
<1>6. CASE Environment \/ UNCHANGED vars
  <2>1. UNCHANGED <<pc, local, ips, cloud, faults>>
        BY <1>6 DEF vars, Environment, RouteOrder, SendOrder, EndOrder, CooldownEnds,
           LockExpires, Destroy, rows
  <2> QED
      BY <2>1, CloudKept DEF QuietInv
<1> QED
    BY <1>1, <1>2, <1>3, <1>4, <1>5, <1>6, QuietSteps DEF Next, QuietInv

\* What a request has seen stays true while nothing of its IP changes.
LEMMA FreshKept ==
    ASSUME NEW u \in Tasks, Fresh(u), pc'[u] = pc[u], local'[u] = local[u],
           ips'[local[u].i] = ips[local[u].i], cloud'[local[u].i] = cloud[local[u].i],
           <<local[u].b, local[u].i>> \in cooling' => <<local[u].b, local[u].i>> \in cooling,
           {a \in DOMAIN assignments' :
               assignments'[a].status = "active" /\ assignments'[a].ip = local[u].i}
             = ActiveOn(local[u].i),
           faults' = faults
    PROVE  Fresh(u)'
<1>1. ActiveOn(local[u].i)' = ActiveOn(local[u].i)
      BY DEF ActiveOn, Active
<1> QED
    BY <1>1 DEF Fresh

\* A check leaves a request with what it has seen of its IP.
LEMMA CheckFresh ==
    ASSUME FrameInv, LocksHeld, QuietInv, NEW t \in Tasks, Check(t)
    PROVE  Fresh(t)'
<1> DEFINE f == local[t]
           g == local'[t]
<1>1. /\ local' \in [Tasks -> Frame]
      /\ pc[t] = "check" /\ pc'[t] = IF f.op = "assign" THEN "commit" ELSE "call"
      /\ f.op \in IpOps /\ f.i \in Ips
      /\ g.op = f.op /\ g.b = f.b /\ g.i = f.i /\ g.n = f.n
      /\ g.view = ips[f.i]
      /\ g.asgs = IF f.op = "release" THEN ActiveOn(f.i) ELSE {}
      /\ UNCHANGED <<rows, cloud, instances, orders, lock, faults>>
      BY CheckEffect
<1>2. Allowed(f)
      BY DEF Check
<1>3. /\ f.op = "assign" => ips[f.i].status # "attached" /\ <<f.b, f.i>> \notin cooling
      /\ f.op = "release" => ips[f.i].status # "attached"
      BY <1>2 DEF Allowed, ReuseAllowed
<1>4. f.op # "allocate"
      BY <1>1 DEF IpOps
<1>5. ASSUME pc'[t] = "commit", faults' = 0
      PROVE  cloud'[f.i] = "attached" <=> Changed(local'[t]).status = "attached"
  <2>1. f.op = "assign"
        BY <1>1, <1>5
  <2>2. \A u \in Tasks : pc[u] = "commit" => local[u].i # f.i
        BY <1>1 DEF QuietInv, Apart
  <2>3. cloud[f.i] # "attached"
        BY <1>1, <1>3, <1>5, <2>1, <2>2 DEF QuietInv, CloudInv
  <2>4. Changed(g).status # "attached"
    <3>1. /\ g \in Frame /\ g.op = "assign"
          /\ g.view.status # "attached"
          /\ g.view.status = "attached" <=> g.view.inst # None
          BY <1>1, <1>3, <2>1 DEF QuietInv, InstanceIffAttached
    <3> HIDE DEF g
    <3> QED
        BY <3>1, ChangedConsistent DEF IpOps
  <2> QED
      BY <1>1, <2>3, <2>4 DEF g
<1>6. ActiveOn(f.i) = ActiveOn(local[t].i)'
      BY <1>1 DEF ActiveOn, Active, rows
<1> QED
    BY <1>1, <1>3, <1>4, <1>5, <1>6 DEF Fresh, rows

\* A call leaves the provider with what the commit is to write.
LEMMA CallFresh ==
    ASSUME FrameInv, QuietInv, NEW t \in Tasks, Call(t)
    PROVE  Fresh(t)'
<1> DEFINE f == local[t]
<1>1. /\ pc[t] = "call" /\ local' = local
      /\ UNCHANGED <<ips, assignments, cooling, faults>>
      /\ cloud' = Provide(f.i, Provided(f.op))
      BY DEF Call, rows
<1>2. Fresh(t) /\ FrameOK(t) /\ f \in Frame
      BY <1>1 DEF FrameInv, FramesOK, TypeOK, QuietInv, AllFresh
<1>3. /\ f.i \in Ips /\ f.op \in {"allocate", "attach", "detach", "release"}
      /\ f.op = "attach" => f.n \in Instances
      BY <1>1, <1>2 DEF FrameOK, IpOps
<1>4. cloud'[f.i] = "attached" <=> f.op = "attach"
      BY <1>1, <1>3 DEF Provide, Provided, FrameInv, TypeOK
<1>5. /\ f.view.status = "attached" <=> f.view.inst # None
      /\ f.op \in {"assign", "release"} => f.view.status # "attached"
      BY <1>2, <1>3 DEF Fresh, QuietInv, InstanceIffAttached
<1> HIDE DEF f
<1>6. Changed(f).status = "attached" <=> f.op = "attach"
      BY <1>2, <1>3, <1>5, ChangedConsistent DEF IpOps
<1>7. ActiveOn(f.i) = ActiveOn(local[t].i)'
      BY <1>1 DEF ActiveOn, Active, f
<1> QED
    BY <1>1, <1>2, <1>4, <1>6, <1>7 DEF Fresh, f

\* A commit is of no other request's IP.
LEMMA CommitFresh ==
    ASSUME FrameInv, QuietInv, NEW t \in Tasks, Commit(t), NEW u \in Tasks, u # t,
           pc[u] \in {"call", "commit"}
    PROVE  Fresh(u)'
<1> DEFINE f == local[t]
           n == Len(assignments) + 1
           j == local[u].i
<1>1. /\ pc[t] = "commit" /\ f.i \in Ips /\ Fresh(t)
      /\ \A k \in Ips \ {f.i} : ips'[k] = ips[k]
      BY QuietCommit
<1>2. UNCHANGED <<cloud, faults>>
      BY CommitEffect
<1>3. pc'[u] = pc[u] /\ local'[u] = local[u]
      BY OnlyItsFrame DEF Step
<1>4. j \in Ips /\ j # f.i /\ Fresh(u)
      BY <1>1 DEF QuietInv, Apart, AllFresh, FrameInv, FramesOK, FrameOK
<1>5. /\ f.op = "assign" =>
            /\ DOMAIN assignments' = DOMAIN assignments \cup {n}
            /\ \A a \in DOMAIN assignments : assignments'[a] = assignments[a]
            /\ assignments'[n].ip = f.i
            /\ cooling' = cooling
      /\ f.op # "assign" =>
            /\ DOMAIN assignments' = DOMAIN assignments
            /\ \A a \in DOMAIN assignments :
                  /\ assignments'[a].ip = assignments[a].ip
                  /\ assignments'[a].status = IF a \in f.asgs THEN "released"
                                              ELSE assignments[a].status
            /\ cooling' = cooling \cup ({PairOf(a) : a \in f.asgs} \cap open)
      BY QuietHistory
<1>6. f.asgs = {} \/ f.asgs = ActiveOn(f.i)
      BY <1>1 DEF Fresh
<1> HIDE DEF f, n, j
<1>7. \A a \in f.asgs : a \in DOMAIN assignments /\ assignments[a].ip = f.i
      BY <1>6 DEF ActiveOn
<1>8. {a \in DOMAIN assignments' : assignments'[a].status = "active" /\ assignments'[a].ip = j}
        = ActiveOn(j)
  <2>1. CASE f.op = "assign"
        BY <1>4, <1>5, <2>1 DEF ActiveOn, Active
  <2>2. CASE f.op # "assign"
        BY <1>4, <1>5, <1>7, <2>2 DEF ActiveOn, Active
  <2> QED
      BY <2>1, <2>2
<1>9. <<local[u].b, j>> \in cooling' => <<local[u].b, j>> \in cooling
      BY <1>4, <1>5, <1>7 DEF PairOf
<1>10. ips'[j] = ips[j]
       BY <1>1, <1>4
<1> QED
    BY <1>2, <1>3, <1>4, <1>8, <1>9, <1>10, FreshKept DEF j

\* Every request that is past its checks has a frame that is true of its IP.
LEMMA FreshStep ==
    ASSUME FrameInv, LocksHeld, QuietInv, "rotate" \notin Ops, [Next]_vars
    PROVE  AllFresh'
<1> SUFFICES ASSUME NEW u \in Tasks, pc'[u] \in {"call", "commit"}
             PROVE  Fresh(u)'
    BY DEF AllFresh
<1>1. ASSUME pc'[u] = pc[u], local'[u] = local[u], cooling' \subseteq cooling,
             UNCHANGED <<ips, assignments, cloud, faults>>
      PROVE  Fresh(u)'
  <2>1. Fresh(u)
        BY <1>1 DEF QuietInv, AllFresh
  <2> QED
      BY <1>1, <2>1, FreshKept DEF ActiveOn, Active
<1>2. ASSUME NEW t \in Tasks, Request(t)
      PROVE  Fresh(u)'
  <2>1. PICK f \in Frame :
           /\ Begin(t, f)
           /\ f.asgs = {} /\ f.view = AbsentIp
           /\ f.op = "allocate" => Unused(f.i) /\ f.i \in Ips
           /\ f.op # "rotate"
    <3>1. PICK f \in Frame :
             /\ Begin(t, f)
             /\ f.asgs = {} /\ f.view = AbsentIp
             /\ \/ /\ f.op \in IpOps \cup {"allocate"} /\ f.i \in Ips
                   /\ f.op = "allocate" => Unused(f.i)
                \/ f.op = "rotate"
          BY <1>2, RequestEffect
    <3>2. f.op # "rotate"
          BY <3>1 DEF Begin
    <3> QED
        BY <3>1, <3>2
  <2>2. /\ local'[t] = f
        /\ pc'[t] = IF f.op = "allocate" THEN "call" ELSE "check"
        /\ \A v \in Tasks \ {t} : pc'[v] = pc[v] /\ local'[v] = local[v]
        /\ UNCHANGED <<ips, assignments, cooling, cloud, faults>>
        BY <2>1, BeginEffect DEF FrameInv, rows
  <2>3. CASE u = t
    <3>1. f.op = "allocate" /\ Unused(f.i) /\ f.i \in Ips
          BY <2>1, <2>2, <2>3
    <3>2. ips[f.i].status = "absent" /\ ips[f.i].inst = None /\ ips[f.i] \in IpRow
          BY <3>1 DEF Unused, QuietInv, InstanceIffAttached, FrameInv, TypeOK
    <3>3. ips[f.i] = AbsentIp
          BY <3>2 DEF IpRow, AbsentIp
    <3> QED
        BY <2>1, <2>2, <2>3, <3>1, <3>3 DEF Fresh, AbsentIp
  <2>4. CASE u # t
        BY <1>1, <2>2, <2>4
  <2> QED
      BY <2>3, <2>4
<1>3. ASSUME NEW t \in Tasks, Step(t)
      PROVE  Fresh(u)'
  <2>1. u # t => pc'[u] = pc[u] /\ local'[u] = local[u]
        BY <1>3, OnlyItsFrame
  <2>2. CASE Check(t)
    <3>1. UNCHANGED <<ips, assignments, cooling, cloud, faults>>
          BY <2>2 DEF Check, rows
    <3> QED
        BY <1>1, <2>1, <2>2, <3>1, CheckFresh
  <2>3. CASE Call(t)
    <3>1. CASE u = t
          BY <2>3, <3>1, CallFresh
    <3>2. CASE u # t
      <4>1. /\ pc[t] = "call" /\ UNCHANGED <<ips, assignments, cooling, faults>>
            /\ cloud' = Provide(local[t].i, Provided(local[t].op))
            BY <2>3 DEF Call, rows
      <4>2. pc[u] \in {"call", "commit"} /\ local[u].i \in Ips /\ Fresh(u)
            BY <2>1, <3>2 DEF QuietInv, AllFresh, FrameInv, FramesOK, FrameOK
      <4>3. local[u].i # local[t].i
            BY <3>2, <4>1, <4>2 DEF QuietInv, Apart
      <4>4. cloud'[local[u].i] = cloud[local[u].i]
            BY <4>1, <4>2, <4>3 DEF Provide, FrameInv, TypeOK
      <4> QED
          BY <2>1, <3>2, <4>1, <4>2, <4>4, FreshKept DEF ActiveOn, Active
    <3> QED
        BY <3>1, <3>2
  <2>4. CASE Return(t)
    <3>1. u # t
          BY <2>4, ReturnEffect DEF FrameInv
    <3>2. CASE Commit(t)
          BY <2>1, <3>1, <3>2, CommitFresh
    <3>3. CASE Refuse(t) \/ AllocateFails(t)
          BY <1>1, <2>1, <3>1, <3>3 DEF Refuse, AllocateFails, rows
    <3>4. CASE BadConfig(t)
      <4>1. /\ UNCHANGED <<ips, assignments, cooling, cloud>> /\ faults' = faults + 1
            /\ pc'[u] = pc[u] /\ local'[u] = local[u]
            BY <2>1, <3>1, <3>4 DEF BadConfig, rows
      <4>2. Fresh(u) /\ faults' # 0
            BY <4>1, IpAssumption DEF QuietInv, AllFresh, FrameInv, TypeOK
      <4>3. ActiveOn(local[u].i)' = ActiveOn(local[u].i)
            BY <4>1 DEF ActiveOn, Active
      <4> QED
          BY <4>1, <4>2, <4>3 DEF Fresh
    <3> QED
        BY <1>3, <2>2, <2>3, <3>2, <3>3, <3>4, QuietSteps DEF QuietInv
  <2> QED
      BY <1>3, <2>2, <2>3, <2>4, QuietSteps DEF Commit, Refuse, AllocateFails, QuietInv
<1>4. ~Crash
      BY DEF Crash
<1>5. CASE Environment \/ UNCHANGED vars
  <2>1. UNCHANGED <<pc, local, ips, assignments, cloud, faults>> /\ cooling' \subseteq cooling
        BY <1>5 DEF vars, Environment, RouteOrder, SendOrder, EndOrder, CooldownEnds,
           LockExpires, Destroy, rows
  <2> QED
      BY <1>1, <2>1
<1> QED
    BY <1>2, <1>3, <1>4, <1>5 DEF Next

\* The rows that only commits write stay consistent.
LEMMA RowsStep ==
    ASSUME FrameInv, QuietInv, [Next]_vars
    PROVE  HistoryMatches' /\ ActiveIpUsable' /\ InstanceIffAttached'
<1>1. CASE \E t \in Tasks : Commit(t)
      BY <1>1, HistoryStep, UsableStep, ConsistentStep
<1>2. CASE ~\E t \in Tasks : Commit(t)
  <2>1. UNCHANGED <<ips, assignments, open>>
    <3>1. ASSUME NEW t \in Tasks, Request(t)
          PROVE  UNCHANGED <<ips, assignments, open>>
          BY <3>1, RequestEffect DEF Begin, rows
    <3>2. ASSUME NEW t \in Tasks, Step(t)
          PROVE  UNCHANGED <<ips, assignments, open>>
          BY <1>2, <3>2, QuietSteps DEF Check, Call, Refuse, AllocateFails, BadConfig, rows,
             QuietInv
    <3> QED
        BY <3>1, <3>2 DEF Next, vars, Crash, Environment, RouteOrder, SendOrder, EndOrder,
           CooldownEnds, LockExpires, Destroy, rows
  <2> QED
      BY <2>1 DEF QuietInv, HistoryMatches, ActiveIpUsable, InstanceIffAttached, Active, PairOf
<1> QED
    BY <1>1, <1>2

\* While nobody rotates and locks last, QuietInv holds in every state.
LEMMA QuietInvariant ==
    ASSUME ~LocksExpire, "rotate" \notin Ops
    PROVE  Spec => [](FrameInv /\ LocksHeld /\ QuietInv)
<1>1. Init => QuietInv
  <2> SUFFICES ASSUME Init
               PROVE  QuietInv
      OBVIOUS
  <2>1. NoRotation /\ Apart /\ AllFresh
        BY DEF Init, NoRotation, Apart, AllFresh, Rotating
  <2>2. CloudInv /\ HistoryMatches /\ ActiveIpUsable /\ InstanceIffAttached
        BY DEF Init, CloudInv, HistoryMatches, ActiveIpUsable, InstanceIffAttached, AbsentIp
  <2> QED
      BY <2>1, <2>2 DEF QuietInv
<1>2. FrameInv /\ LocksHeld /\ QuietInv /\ [Next]_vars => QuietInv'
  <2> SUFFICES ASSUME FrameInv, LocksHeld, QuietInv, [Next]_vars
               PROVE  QuietInv'
      OBVIOUS
  <2>1. NoRotation'
        BY NoRotationStep DEF QuietInv
  <2> QED
      BY <2>1, ApartStep, FreshStep, CloudStep, RowsStep DEF QuietInv
<1>3. Spec => []LocksHeld
  <2>1. OneInv => LocksHeld
        BY DEF OneInv
  <2> QED
      BY <2>1, OneInvariant, PTL
<1> QED
    BY <1>1, <1>2, <1>3, FrameInvariant, PTL DEF Spec

\* The usage history tells who uses which IP, through assigning and releasing
\* at once and crashes in between: release() closes exactly the usage rows of
\* the assignments it ends.
THEOREM UsageHistoryMatches ==
    ASSUME ~LocksExpire, "rotate" \notin Ops PROVE Spec => []HistoryMatches
<1>1. QuietInv => HistoryMatches
      BY DEF QuietInv
<1> QED
    BY <1>1, QuietInvariant, PTL

\* The IP a broker trades from is not a released one: an assign that loaded the
\* row before a release, and a release that loaded the assignments before an
\* assign, cannot pass each other.
THEOREM ActiveIpsAreUsable ==
    ASSUME ~LocksExpire, "rotate" \notin Ops PROVE Spec => []ActiveIpUsable
<1>1. QuietInv => ActiveIpUsable
      BY DEF QuietInv
<1> QED
    BY <1>1, QuietInvariant, PTL

\* A row says attached exactly if it names the instance, although commits write
\* changed columns only.
THEOREM InstancesMatchStatus ==
    ASSUME ~LocksExpire, "rotate" \notin Ops PROVE Spec => []InstanceIffAttached
<1>1. QuietInv => InstanceIffAttached
      BY DEF QuietInv
<1> QED
    BY <1>1, QuietInvariant, PTL

\* The provider and the row agree on an IP that no request holds, while the
\* provider keeps its memory.
THEOREM ProviderAndRowAgree ==
    ASSUME ~LocksExpire, "rotate" \notin Ops PROVE Spec => []ProviderAgrees
<1>1. FrameInv /\ LocksHeld /\ QuietInv => ProviderAgrees
  <2> SUFFICES ASSUME FrameInv, LocksHeld, QuietInv, NEW i \in Ips, lock[IpLock(i)] = None,
                      faults = 0
               PROVE  cloud[i] = "attached" <=> ips[i].status = "attached"
      BY DEF ProviderAgrees
  <2>1. CASE \A t \in Tasks : pc[t] = "commit" => local[t].i # i
        BY <2>1 DEF QuietInv, CloudInv
  <2>2. ASSUME NEW t \in Tasks, pc[t] = "commit", local[t].i = i
        PROVE  cloud[i] = "attached" <=> ips[i].status = "attached"
    <3>1. local[t].op = "allocate"
          BY <2>2, QuietRequest, IpAssumption DEF QuietInv
    <3>2. /\ ips[i] = AbsentIp
          /\ cloud[i] = "attached" <=> Changed(local[t]).status = "attached"
          BY <2>2, <3>1 DEF QuietInv, AllFresh, Fresh
    <3>3. Changed(local[t]).status = "allocated" /\ AbsentIp.status = "absent"
          BY <3>1 DEF Changed, AbsentIp
    <3> QED
        BY <3>2, <3>3
  <2> QED
      BY <2>1, <2>2
<1> QED
    BY <1>1, QuietInvariant, PTL

\* BR-G04: a broker gets an IP again only after its cooldown.  The check is
\* made before the commit; the IP's lock keeps the pair out of the cooldown
\* that a release would start in between.
THEOREM NoReuseBeforeItsTime ==
    ASSUME ~LocksExpire, "rotate" \notin Ops PROVE Spec => NoReuseInCooldown
<1> DEFINE Waits == \A a \in DOMAIN assignments' :
                       /\ assignments'[a].status = "active"
                       /\ a \in DOMAIN assignments => ~Active(a)
                       => <<assignments'[a].broker, assignments'[a].ip>> \notin cooling
<1>1. ASSUME FrameInv, LocksHeld, QuietInv, Next
      PROVE  Waits
  <2> SUFFICES ASSUME NEW a \in DOMAIN assignments', assignments'[a].status = "active",
                      a \in DOMAIN assignments => ~Active(a)
               PROVE  <<assignments'[a].broker, assignments'[a].ip>> \notin cooling
      OBVIOUS
  <2>1. PICK t \in Tasks : Request(t) \/ Step(t)
    <3>1. assignments' # assignments
          BY DEF Active
    <3> QED
        BY <1>1, <3>1 DEF Next, Crash, Environment, RouteOrder, SendOrder, EndOrder,
           CooldownEnds, LockExpires, Destroy, rows
  <2>2. ~Cutover(t) /\ ~Abort(t)
        BY <1>1 DEF Cutover, Abort, QuietInv, NoRotation, Rotating
  <2>3. /\ Commit(t) /\ local[t].op = "assign" /\ assignments'[a].ip = local[t].i
        /\ assignments'[a].broker = local[t].b
        BY <1>1, <2>1, <2>2, BecomesActive DEF Active
  <2> QED
      BY <1>1, <2>3, QuietCommit DEF Fresh
<1>2. FrameInv /\ LocksHeld /\ QuietInv /\ [Next]_vars => [Waits]_vars
      BY <1>1
<1> QED
    BY <1>2, QuietInvariant, PTL DEF Spec, NoReuseInCooldown
-----------------------------------------------------------------------------
(* Rotation where nothing is released: the broker's lock is enough.        *)

Present(i) == ips[i].status # "absent"

\* No request releases; none but a rotation has loaded assignments.
Unloaded(t) == pc[t] \in {"check", "call", "commit"} =>
                  local[t].op # "release" /\ local[t].asgs = {}
\* The IPs a request assigns exist, and a rotation's new IP is another than the old.
Named(t) ==
    /\ pc[t] \in {"check", "commit"} /\ local[t].op = "assign" => Present(local[t].i)
    /\ pc[t] \in Created => Present(local[t].new) /\ local[t].new # local[t].i
\* The pairs that a request may make active do not cool down.
Warm(t) ==
    /\ pc[t] = "commit" /\ local[t].op = "assign" => <<local[t].b, local[t].i>> \notin cooling
    /\ pc[t] \in Chosen => <<local[t].b, local[t].i>> \notin cooling
    /\ pc[t] \in Created => <<local[t].b, local[t].new>> \notin cooling
UnloadedOK  == \A t \in Tasks : Unloaded(t)
NamedOK     == /\ \A t \in Tasks : Named(t)
               /\ \A a \in DOMAIN assignments : Present(assignments[a].ip)
WarmOK      == /\ \A t \in Tasks : Warm(t)
               /\ \A a \in DOMAIN assignments : Active(a) => PairOf(a) \notin cooling
CoolPresent == \A b \in Brokers, i \in Ips : <<b, i>> \in cooling => Present(i)
CoolInv     == UnloadedOK /\ NamedOK /\ WarmOK /\ CoolPresent

\* A row that exists goes on existing.
LEMMA StaysPresent ==
    ASSUME FrameInv, Next, NEW i \in Ips, Present(i)
    PROVE  Present(i)'
<1>1. \A r, v, n : r.status # "absent" /\ (n.status # "absent" \/ n.status = v.status)
                   => Flush(r, v, n).status # "absent"
      BY DEF Flush
<1>2. ips \in [Ips -> IpRow]
      BY DEF FrameInv, TypeOK
<1>3. ASSUME NEW j \in Ips, NEW v, NEW n, n.status # "absent" \/ n.status = v.status,
             ips' = [ips EXCEPT ![j] = Flush(ips[j], v, n)]
      PROVE  Present(i)'
  <2>1. CASE i = j
    <3>1. ips'[i] = Flush(ips[i], v, n)
          BY <1>2, <1>3, <2>1
    <3> QED
        BY <1>1, <1>3, <3>1 DEF Present
  <2>2. CASE i # j
        BY <1>2, <1>3, <2>2 DEF Present
  <2> QED
      BY <2>1, <2>2
<1>4. ASSUME NEW t \in Tasks, CleanUpNewIp(t), local[t].new \in Ips
      PROVE  Present(i)'
  <2> DEFINE n == [status |-> "released", inst |-> None]
  <2>1. n.status = "released"
        OBVIOUS
  <2>2. ips' = [ips EXCEPT ![local[t].new] = Flush(ips[local[t].new], local[t].newView, n)]
        BY <1>4 DEF CleanUpNewIp
  <2> HIDE DEF n
  <2> QED
      BY <1>3, <1>4, <2>1, <2>2
<1>5. ASSUME NEW t \in Tasks, Commit(t)
      PROVE  Present(i)'
  <2> DEFINE f == local[t]
  <2>1. /\ f.op \in IpOps \cup {"allocate"} /\ f.i \in Ips /\ f \in Frame
        /\ ips' = [ips EXCEPT ![f.i] = Flush(ips[f.i], f.view, Changed(f))]
        BY <1>5, CommitEffect
  <2>2. f.view \in IpRow
        BY <2>1 DEF Frame
  <2>3. Changed(f).status # "absent" \/ Changed(f).status = f.view.status
        BY <2>1, <2>2 DEF Changed, IpOps, IpRow
  <2> HIDE DEF f
  <2> QED
      BY <1>3, <2>1, <2>3
<1>6. ASSUME NEW t \in Tasks, CreateNewIp(t)
      PROVE  Present(i)'
      BY <1>2, <1>6, CreateEffect DEF Present
<1>7. ASSUME NEW t \in Tasks, Rehost(t)
      PROVE  Present(i)'
  <2>1. local[t].new \in Ips
        BY <1>7, RehostEffect
  <2>2. CASE UNCHANGED ips
        BY <2>2 DEF Present
  <2> DEFINE n == [status |-> "attached", inst |-> local[t].n]
  <2>3. ASSUME ips' = [ips EXCEPT ![local[t].new] =
                         Flush(ips[local[t].new], local[t].newView, n)]
        PROVE  Present(i)'
    <3>1. n.status = "attached"
          OBVIOUS
    <3> HIDE DEF n
    <3> QED
        BY <1>3, <2>1, <2>3, <3>1
  <2> QED
      BY <1>7, <2>2, <2>3 DEF Rehost
<1>8. ASSUME NEW t \in Tasks, Cutover(t)
      PROVE  Present(i)'
  <2>1. local[t].i \in Ips
    <3>1. pc[t] \in Chosen
          BY <1>8 DEF Cutover, Chosen, Rotating
    <3>2. PICK a \in DOMAIN assignments : assignments[a].ip = local[t].i
          BY <3>1 DEF FrameInv, FramesOK, FrameOK
    <3>3. assignments[a] \in Assignment
          BY DEF FrameInv, TypeOK
    <3> QED
        BY <3>2, <3>3 DEF Assignment
  <2>2. \/ ips' = [ips EXCEPT ![local[t].i] = [status |-> "released", inst |-> None]]
        \/ ips' = [ips EXCEPT ![local[t].i].status = "released"]
        BY <1>8 DEF Cutover
  <2>3. i # local[t].i => ips'[i] = ips[i]
        BY <1>2, <2>2
  <2>4. ips'[local[t].i].status = "released"
        BY <1>2, <2>1, <2>2 DEF IpRow
  <2> QED
      BY <2>3, <2>4 DEF Present
<1>9. ASSUME NEW t \in Tasks, Abort(t) \/ CleanUp(t)
      PROVE  Present(i)'
  <2>1. local[t].new \in Ips
        BY <1>9 DEF Abort, CleanUp, FrameInv, FramesOK, FrameOK, Created, Chosen, Rotating
  <2>2. CleanUpNewIp(t) \/ UNCHANGED ips
        BY <1>9 DEF Abort, CleanUp
  <2> QED
      BY <1>4, <2>1, <2>2 DEF Present
<1>10. CASE UNCHANGED ips
       BY <1>10 DEF Present
<1>11. ASSUME NEW t \in Tasks, Request(t)
       PROVE  UNCHANGED ips
       BY <1>11, RequestEffect, BeginEffect DEF FrameInv, rows
<1>12. ASSUME NEW t \in Tasks,
              \/ Check(t) \/ Refuse(t) \/ Call(t) \/ AllocateFails(t)
              \/ NoAssignment(t) \/ ReadAssignment(t) \/ CreateNewIpFails(t) \/ RehostFails(t)
              \/ MarkDraining(t) \/ Drained(t) \/ DrainTimesOut(t) \/ BadConfig(t)
              \/ CleanUpFails(t)
       PROVE  UNCHANGED ips
       BY <1>12 DEF Check, Refuse, Call, AllocateFails, NoAssignment, ReadAssignment,
          CreateNewIpFails, RehostFails, MarkDraining, Drained, DrainTimesOut, BadConfig,
          CleanUpFails, rows
<1>13. Crash \/ Environment => UNCHANGED ips
       BY DEF Crash, Environment, RouteOrder, SendOrder, EndOrder, CooldownEnds, LockExpires,
          Destroy, rows
<1> QED
    BY <1>5, <1>6, <1>7, <1>8, <1>9, <1>10, <1>11, <1>12, <1>13 DEF Next, Step, RotateStep

\* Assignments stay, and a commit or a cutover adds one.
LEMMA AssignmentsStep ==
    ASSUME FrameInv, NEW t \in Tasks, Request(t) \/ Step(t), NEW a \in DOMAIN assignments'
    PROVE  \/ /\ a \in DOMAIN assignments
              /\ assignments'[a].broker = assignments[a].broker
              /\ assignments'[a].ip = assignments[a].ip
           \/ /\ Commit(t) /\ local[t].op = "assign"
              /\ assignments'[a] = [broker |-> local[t].b, ip |-> local[t].i,
                                    status |-> "active"]
           \/ /\ Cutover(t)
              /\ assignments'[a] = [broker |-> local[t].b, ip |-> local[t].new,
                                    status |-> "active"]
<1>1. assignments \in Seq(Assignment)
      BY DEF FrameInv, TypeOK
<1>2. CASE Commit(t)
  <2>1. CASE local[t].op = "assign"
    <3>1. PICK b \in Brokers, i \in Ips :
             assignments' = Add(assignments, b, i) /\ local[t].b = b /\ local[t].i = i
          BY <1>2, <2>1, CommitEffect
    <3>2. /\ DOMAIN assignments' = DOMAIN assignments \cup {Len(assignments) + 1}
          /\ \A x \in DOMAIN assignments : assignments'[x] = assignments[x]
          /\ assignments'[Len(assignments) + 1] = [broker |-> b, ip |-> i, status |-> "active"]
      <4> DEFINE s == assignments
      <4>1. s \in Seq(Assignment)
            BY <1>1
      <4> HIDE DEF s
      <4>2. /\ DOMAIN Add(s, b, i) = DOMAIN s \cup {Len(s) + 1}
            /\ \A x \in DOMAIN s : Add(s, b, i)[x] = s[x]
            /\ Add(s, b, i)[Len(s) + 1] = [broker |-> b, ip |-> i, status |-> "active"]
            BY <4>1, AddEffect
      <4> QED
          BY <3>1, <4>2 DEF s
    <3> QED
        BY <1>2, <2>1, <3>1, <3>2
  <2>2. CASE local[t].op # "assign"
        BY <1>1, <1>2, <2>2, CommitEffect, MarkAllEffect
  <2> QED
      BY <2>1, <2>2
<1>3. CASE Cutover(t)
      BY <1>3, CutoverEffect
<1>4. CASE MarkDraining(t) \/ Abort(t)
  <2>1. assignments' = SetOld(t, "draining") \/ assignments' = SetOld(t, "active")
        BY <1>4 DEF MarkDraining, Abort, Reactivated
  <2> QED
      BY <2>1, SetOldEffect DEF FrameInv
<1>5. CASE Request(t)
      BY <1>5, RequestEffect, BeginEffect DEF FrameInv, rows
<1>6. CASE \/ Check(t) \/ Refuse(t) \/ Call(t) \/ AllocateFails(t)
           \/ NoAssignment(t) \/ ReadAssignment(t) \/ CreateNewIp(t) \/ CreateNewIpFails(t)
           \/ Rehost(t) \/ RehostFails(t) \/ Drained(t) \/ DrainTimesOut(t) \/ BadConfig(t)
           \/ CleanUp(t) \/ CleanUpFails(t)
  <2>1. UNCHANGED assignments
        BY <1>6 DEF Check, Refuse, Call, AllocateFails, NoAssignment, ReadAssignment, CreateNewIp,
           CreateNewIpFails, Rehost, RehostFails, Drained, DrainTimesOut, BadConfig, CleanUp,
           CleanUpFails, rows
  <2> QED
      BY <2>1
<1> QED
    BY <1>2, <1>3, <1>4, <1>5, <1>6 DEF Step, RotateStep

\* A cutover alone makes a pair cool down, the old one.
LEMMA Cools ==
    ASSUME FrameInv, UnloadedOK, NEW t \in Tasks, Request(t) \/ Step(t)
    PROVE  \/ cooling' = cooling /\ ~Cutover(t)
           \/ /\ Cutover(t) /\ cooling' \subseteq cooling \cup {<<local[t].b, local[t].i>>}
<1>1. CASE Commit(t)
  <2>1. ~Cutover(t)
        BY <1>1 DEF Commit, Cutover
  <2>2. local[t].asgs = {}
        BY <1>1 DEF Commit, UnloadedOK, Unloaded
  <2>3. cooling' = cooling
        BY <1>1, <2>2 DEF Commit, Close, Loaded
  <2> QED
      BY <2>1, <2>3
<1>2. CASE Cutover(t)
      BY <1>2 DEF Cutover
<1>3. CASE ~Commit(t) /\ ~Cutover(t)
  <2>1. Request(t) => cooling' = cooling
        BY RequestEffect, BeginEffect DEF FrameInv, rows
  <2>2. Step(t) => cooling' = cooling
        BY <1>3 DEF Step, RotateStep, Check, Refuse, Call, AllocateFails, NoAssignment,
           ReadAssignment, CreateNewIp, CreateNewIpFails, Rehost, RehostFails, MarkDraining,
           Drained, DrainTimesOut, BadConfig, Abort, CleanUp, CleanUpFails, rows
  <2> QED
      BY <1>3, <2>1, <2>2
<1> QED
    BY <1>1, <1>2, <1>3

\* Where a step of a rotation leads, and what it leaves of the frame.
LEMMA OwnMoves ==
    ASSUME FrameInv, NEW t \in Tasks, Step(t)
    PROVE  \/ Check(t) \/ Call(t) \/ ReadAssignment(t) \/ CreateNewIp(t)
           \/ pc'[t] = "idle"
           \/ /\ pc[t] \in Created /\ pc'[t] \in Created
              /\ local'[t].b = local[t].b /\ local'[t].i = local[t].i
              /\ local'[t].new = local[t].new /\ local'[t].asgs = local[t].asgs
<1>1. CASE Rehost(t) \/ MarkDraining(t)
      BY <1>1, RehostEffect, MarkDrainingEffect DEF Created, Chosen, Rotating
<1>2. CASE \/ RehostFails(t) \/ Drained(t) \/ DrainTimesOut(t)
           \/ BadConfig(t) /\ UNCHANGED local
  <2>1. \/ pc'[t] = "idle"
        \/ /\ pc[t] \in {"rehost", "drain", "cutover"}
           /\ pc'[t] \in {"cleanup", "cutover", "abort"} /\ local' = local
        BY <1>2 DEF RehostFails, Drained, DrainTimesOut, BadConfig, Return, Goto, FrameInv,
           TypeOK
  <2> QED
      BY <2>1 DEF Created, Chosen, Rotating
<1>3. CASE Return(t)
      BY <1>3, ReturnEffect DEF FrameInv
<1>4. BadConfig(t) => Return(t) \/ UNCHANGED local
      BY DEF BadConfig
<1>5. (\/ Refuse(t) \/ AllocateFails(t) \/ Commit(t) \/ NoAssignment(t) \/ CreateNewIpFails(t)
       \/ Abort(t) \/ Cutover(t) \/ CleanUp(t) \/ CleanUpFails(t)) => Return(t)
      BY DEF Refuse, AllocateFails, Commit, NoAssignment, CreateNewIpFails, Abort, Cutover, CleanUp,
         CleanUpFails
<1> QED
    BY <1>1, <1>2, <1>3, <1>4, <1>5 DEF Step, RotateStep

LEMMA UnloadedStep ==
    ASSUME "release" \notin Ops, FrameInv, UnloadedOK, [Next]_vars
    PROVE  UnloadedOK'
<1>1. ASSUME NEW t \in Tasks, Request(t) \/ Step(t)
      PROVE  UnloadedOK'
  <2>1. \A u \in Tasks \ {t} : pc'[u] = pc[u] /\ local'[u] = local[u]
        BY <1>1, OnlyItsFrame
  <2>2. Unloaded(t)'
    <3>1. CASE Request(t)
      <4>1. PICK f \in Frame : Begin(t, f) /\ f.asgs = {}
            BY <3>1, RequestEffect
      <4>2. local'[t] = f /\ f.op # "release"
            BY <4>1, BeginEffect DEF Begin, FrameInv
      <4> QED
          BY <4>1, <4>2 DEF Unloaded
    <3>2. CASE Check(t)
      <4>1. /\ pc[t] = "check" /\ local'[t].op = local[t].op
            /\ local'[t].asgs = IF local[t].op = "release" THEN ActiveOn(local[t].i) ELSE {}
            BY <3>2, CheckEffect
      <4> QED
          BY <4>1 DEF UnloadedOK, Unloaded
    <3>3. CASE Call(t)
          BY <3>3 DEF Call, UnloadedOK, Unloaded
    <3>4. CASE ReadAssignment(t) \/ CreateNewIp(t)
      <4>1. pc'[t] \in {"create", "rehost"}
            BY <3>4, ReadEffect, CreateEffect
      <4> QED
          BY <4>1 DEF Unloaded
    <3>5. CASE pc'[t] \in Created \cup {"idle"}
          BY <3>5 DEF Unloaded, Created, Chosen, Rotating
    <3> QED
        BY <1>1, <3>1, <3>2, <3>3, <3>4, <3>5, OwnMoves
  <2> QED
      BY <2>1, <2>2 DEF UnloadedOK, Unloaded
<1>2. CASE Crash
  <2>1. \A t \in Tasks : pc'[t] = "idle"
        BY <1>2 DEF Crash
  <2> QED
      BY <2>1 DEF UnloadedOK, Unloaded
<1>3. CASE Environment \/ UNCHANGED vars
  <2>1. UNCHANGED <<pc, local>>
        BY <1>3 DEF vars, Environment, RouteOrder, SendOrder, EndOrder, CooldownEnds,
           LockExpires, Destroy
  <2> QED
      BY <2>1 DEF UnloadedOK, Unloaded
<1> QED
    BY <1>1, <1>2, <1>3 DEF Next

\* What the old assignment of a rotation is about.
LEMMA OldAssignment ==
    ASSUME FrameInv, NEW t \in Tasks, pc[t] \in Chosen
    PROVE  /\ pc[t] # "idle" /\ local[t].op = "rotate" /\ local[t].b \in Brokers
           /\ local[t].i \in Ips
           /\ \E a \in DOMAIN assignments :
                 /\ local[t].asgs = {a}
                 /\ assignments[a].broker = local[t].b /\ assignments[a].ip = local[t].i
<1>1. /\ local[t].op = "rotate" /\ local[t].b \in Brokers
      /\ \E a \in DOMAIN assignments :
            /\ local[t].asgs = {a}
            /\ assignments[a].broker = local[t].b /\ assignments[a].ip = local[t].i
      BY DEF FrameInv, FramesOK, FrameOK, Chosen
<1>2. \A a \in DOMAIN assignments : assignments[a].ip \in Ips
  <2>1. \A a \in DOMAIN assignments : assignments[a] \in Assignment
        BY DEF FrameInv, TypeOK
  <2> QED
      BY <2>1 DEF Assignment
<1> QED
    BY <1>1, <1>2 DEF Chosen, Rotating

LEMMA AssignFrame ==
    ASSUME FrameInv, NEW t \in Tasks, pc[t] \in {"check", "commit"}, local[t].op = "assign"
    PROVE  local[t].b \in Brokers /\ local[t].i \in Ips
<1> QED
    BY DEF FrameInv, FramesOK, FrameOK

LEMMA NewOne ==
    ASSUME FrameInv, NEW t \in Tasks, pc[t] \in Created
    PROVE  local[t].new \in Ips
<1> QED
    BY DEF FrameInv, FramesOK, FrameOK

LEMMA NamedStep ==
    ASSUME FrameInv, NamedOK, [Next]_vars
    PROVE  NamedOK'
<1>1. \A i \in Ips : Next /\ Present(i) => Present(i)'
      BY StaysPresent
<1>2. ASSUME NEW t \in Tasks, Request(t) \/ Step(t), Next
      PROVE  NamedOK'
  <2>1. \A u \in Tasks \ {t} : pc'[u] = pc[u] /\ local'[u] = local[u]
        BY <1>2, OnlyItsFrame
  <2>2. ASSUME NEW u \in Tasks,
               pc'[u] \in {"check", "commit"} /\ local'[u].op = "assign" =>
                  /\ pc[u] \in {"check", "commit"} /\ local[u].op = "assign"
                  /\ local'[u].i = local[u].i,
               pc'[u] \in Created =>
                  /\ pc[u] \in Created
                  /\ local'[u].i = local[u].i /\ local'[u].new = local[u].new
        PROVE  Named(u)'
    <3>1. CASE pc'[u] \in {"check", "commit"} /\ local'[u].op = "assign"
      <4>1. Present(local[u].i) /\ local[u].i \in Ips
            BY <2>2, <3>1, AssignFrame DEF NamedOK, Named
      <4>2. Present(local[u].i)'
        <5>1. ips'[local[u].i].status # "absent"
              BY <1>1, <1>2, <4>1 DEF Present
        <5> QED
            BY <2>2, <3>1, <5>1 DEF Present
      <4>3. pc'[u] \notin Created
            BY <3>1 DEF Created, Chosen, Rotating
      <4> QED
          BY <4>2, <4>3 DEF Named
    <3>2. CASE pc'[u] \in Created
      <4>1. /\ Present(local[u].new) /\ local[u].new \in Ips /\ local[u].new # local[u].i
            BY <2>2, <3>2, NewOne DEF NamedOK, Named
      <4>2. ips'[local[u].new].status # "absent"
            BY <1>1, <1>2, <4>1 DEF Present
      <4>3. pc'[u] \notin {"check", "commit"}
            BY <3>2 DEF Created, Chosen, Rotating
      <4> QED
          BY <2>2, <3>2, <4>1, <4>2, <4>3 DEF Named, Present
    <3> QED
        BY <3>1, <3>2 DEF Named
  <2>3. Named(t)'
    <3>1. CASE Request(t)
      <4>1. PICK f \in Frame :
               /\ Begin(t, f)
               /\ f.op = "assign" => f.i \in Ips /\ ips[f.i].status # "absent"
            BY <3>1, RequestEffect
      <4>2. local'[t] = f /\ pc'[t] \in {"read", "call", "check"} /\ ips' = ips
            BY <4>1, BeginEffect DEF FrameInv, rows
      <4> QED
          BY <4>1, <4>2 DEF Named, Present, Created, Chosen, Rotating
    <3>2. CASE Check(t)
      <4>1. /\ pc[t] = "check" /\ pc'[t] \in {"commit", "call"}
            /\ local'[t].op = local[t].op /\ local'[t].i = local[t].i
            BY <3>2, CheckEffect
      <4> QED
          BY <2>2, <4>1 DEF Created, Chosen, Rotating
    <3>3. CASE Call(t)
      <4>1. pc'[t] = "commit" /\ local'[t].op # "assign"
            BY <3>3 DEF Call, Goto, FrameInv, FramesOK, FrameOK, TypeOK
      <4> QED
          BY <4>1 DEF Named, Created, Chosen, Rotating
    <3>4. CASE ReadAssignment(t)
      <4>1. pc'[t] = "create"
            BY <3>4, ReadEffect
      <4> QED
          BY <4>1 DEF Named, Created, Chosen, Rotating
    <3>5. CASE CreateNewIp(t)
      <4>1. PICK i \in Ips :
               /\ Unused(i) /\ pc'[t] = "rehost" /\ local'[t].new = i
               /\ local'[t].i = local[t].i
               /\ ips' = [ips EXCEPT ![i] = [status |-> "allocated", inst |-> None]]
            BY <3>5, CreateEffect
      <4>2. ips'[i].status = "allocated"
            BY <4>1 DEF FrameInv, TypeOK
      <4>3. i # local[t].i
            BY <4>1 DEF Unused
      <4> QED
          BY <4>1, <4>2, <4>3 DEF Named, Present
    <3>6. CASE pc'[t] = "idle"
          BY <3>6 DEF Named, Created, Chosen, Rotating
    <3>7. CASE /\ pc[t] \in Created /\ pc'[t] \in Created
               /\ local'[t].i = local[t].i /\ local'[t].new = local[t].new
      <4>1. pc'[t] \notin {"check", "commit"}
            BY <3>7 DEF Created, Chosen, Rotating
      <4> QED
          BY <2>2, <3>7, <4>1
    <3> QED
        BY <1>2, <3>1, <3>2, <3>3, <3>4, <3>5, <3>6, <3>7, OwnMoves
  <2>4. ASSUME NEW u \in Tasks \ {t}
        PROVE  Named(u)'
    <3>1. pc'[u] = pc[u] /\ local'[u] = local[u]
          BY <2>1
    <3> QED
        BY <2>2, <3>1
  <2>5. ASSUME NEW a \in DOMAIN assignments'
        PROVE  ips'[assignments'[a].ip].status # "absent"
    <3>1. CASE a \in DOMAIN assignments /\ assignments'[a].ip = assignments[a].ip
      <4>1. assignments[a].ip \in Ips
        <5>1. assignments[a] \in Assignment
              BY <3>1 DEF FrameInv, TypeOK
        <5> QED
            BY <5>1 DEF Assignment
      <4> QED
          BY <1>1, <1>2, <3>1, <4>1 DEF NamedOK, Present
    <3>2. CASE Commit(t) /\ local[t].op = "assign" /\ assignments'[a].ip = local[t].i
      <4>1. pc[t] = "commit"
            BY <3>2 DEF Commit
      <4>2. local[t].i \in Ips /\ Present(local[t].i)
            BY <3>2, <4>1, AssignFrame DEF NamedOK, Named
      <4> QED
          BY <1>1, <1>2, <3>2, <4>2 DEF Present
    <3>3. CASE Cutover(t) /\ assignments'[a].ip = local[t].new
      <4>1. pc[t] \in Created
            BY <3>3 DEF Cutover, Created, Chosen, Rotating
      <4>2. local[t].new \in Ips /\ Present(local[t].new)
            BY <4>1, NewOne DEF NamedOK, Named
      <4> QED
          BY <1>1, <1>2, <3>3, <4>2 DEF Present
    <3> QED
        BY <1>2, <3>1, <3>2, <3>3, AssignmentsStep
  <2> QED
      BY <2>3, <2>4, <2>5 DEF NamedOK, Present
<1>3. CASE Crash
  <2>1. (\A t \in Tasks : pc'[t] = "idle") /\ UNCHANGED <<ips, assignments>>
        BY <1>3 DEF Crash, rows
  <2> QED
      BY <2>1 DEF NamedOK, Named, Present, Created, Chosen, Rotating
<1>4. CASE Environment \/ UNCHANGED vars
  <2>1. UNCHANGED <<pc, local, ips, assignments>>
        BY <1>4 DEF vars, Environment, RouteOrder, SendOrder, EndOrder, CooldownEnds,
           LockExpires, Destroy, rows
  <2> QED
      BY <2>1 DEF NamedOK, Named, Present
<1> QED
    BY <1>2, <1>3, <1>4 DEF Next

\* A pair of a broker that a request has the lock of begins to cool down by no
\* other request.
LEMMA OthersCool ==
    ASSUME FrameInv, LocksHeld, UnloadedOK, NEW t \in Tasks, Request(t) \/ Step(t),
           NEW u \in Tasks \ {t}, pc[u] # "idle", local[u].op \in {"assign", "rotate"},
           NEW i, <<local[u].b, i>> \notin cooling
    PROVE  <<local[u].b, i>> \notin cooling'
<1>1. CASE Cutover(t)
  <2>1. pc[t] \in Chosen
        BY <1>1 DEF Cutover, Chosen, Rotating
  <2>2. pc[t] # "idle" /\ local[t].op = "rotate"
        BY <2>1, OldAssignment
  <2>3. local[t].b # local[u].b
        BY <2>2, BrokerExcludes
  <2>4. cooling' \subseteq cooling \cup {<<local[t].b, local[t].i>>}
        BY <1>1, Cools
  <2> QED
      BY <2>3, <2>4
<1> QED
    BY <1>1, Cools

LEMMA CommitPair ==
    ASSUME FrameInv, NEW t \in Tasks, Commit(t), local[t].op = "assign",
           NEW a \in DOMAIN assignments', ~(a \in DOMAIN assignments)
    PROVE  assignments'[a] = [broker |-> local[t].b, ip |-> local[t].i, status |-> "active"]
<1>1. ~Cutover(t) /\ Step(t)
      BY DEF Commit, Cutover, Step
<1> QED
    BY <1>1, AssignmentsStep

\* What a step makes active did not cool down.
LEMMA ActivatesWarm ==
    ASSUME FrameInv, WarmOK, NEW t \in Tasks, Request(t) \/ Step(t),
           NEW a \in DOMAIN assignments', assignments'[a].status = "active",
           a \in DOMAIN assignments => ~Active(a)
    PROVE  /\ <<assignments'[a].broker, assignments'[a].ip>> \notin cooling
           /\ assignments'[a].broker = local[t].b
           /\ \/ Commit(t) /\ local[t].op = "assign"
              \/ Cutover(t) /\ assignments'[a].ip = local[t].new
              \/ Abort(t) /\ assignments'[a].ip = local[t].i
<1>1. \/ Commit(t) /\ local[t].op = "assign" /\ a = Len(assignments) + 1
      \/ Cutover(t) /\ a = Len(assignments) + 1
      \/ Abort(t) /\ a \in local[t].asgs
      BY BecomesActive DEF Active
<1>2. Len(assignments) + 1 \notin DOMAIN assignments
      BY DEF FrameInv, TypeOK
<1>3. CASE Commit(t) /\ local[t].op = "assign"
  <2>1. pc[t] = "commit" /\ ~Cutover(t) /\ ~Abort(t)
        BY <1>3 DEF Commit, Cutover, Abort
  <2>2. assignments'[a] = [broker |-> local[t].b, ip |-> local[t].i, status |-> "active"]
        BY <1>1, <1>2, <1>3, <2>1, CommitPair
  <2>3. assignments'[a].broker = local[t].b /\ assignments'[a].ip = local[t].i
        BY <2>2
  <2> QED
      BY <1>3, <2>1, <2>3 DEF WarmOK, Warm
<1>4. CASE Cutover(t)
  <2>1. pc[t] \in Created /\ ~Commit(t) /\ ~Abort(t)
        BY <1>4 DEF Cutover, Commit, Abort, Created, Chosen, Rotating
  <2>2. a \notin DOMAIN assignments
        BY <1>1, <1>2, <2>1
  <2>3. assignments'[a] = [broker |-> local[t].b, ip |-> local[t].new, status |-> "active"]
        BY <2>1, <2>2, AssignmentsStep
  <2>4. assignments'[a].broker = local[t].b /\ assignments'[a].ip = local[t].new
        BY <2>3
  <2> QED
      BY <1>4, <2>1, <2>4 DEF WarmOK, Warm
<1>5. CASE Abort(t)
  <2>1. pc[t] \in Chosen /\ ~Commit(t) /\ ~Cutover(t)
        BY <1>5 DEF Abort, Commit, Cutover, Chosen, Rotating
  <2>2. PICK x \in DOMAIN assignments :
           /\ local[t].asgs = {x}
           /\ assignments[x].broker = local[t].b /\ assignments[x].ip = local[t].i
        BY <2>1, OldAssignment
  <2>3. a = x
        BY <1>1, <2>1, <2>2
  <2>4. assignments'[a].broker = local[t].b /\ assignments'[a].ip = local[t].i
        BY <2>1, <2>2, <2>3, AssignmentsStep
  <2> QED
      BY <1>5, <2>1, <2>4 DEF WarmOK, Warm
<1> QED
    BY <1>1, <1>3, <1>4, <1>5

LEMMA WarmStep ==
    ASSUME FrameInv, OneInv, CoolInv, [Next]_vars
    PROVE  WarmOK'
<1>1. LocksHeld /\ UnloadedOK /\ WarmOK
      BY DEF OneInv, CoolInv
<1>2. ASSUME NEW t \in Tasks, Request(t) \/ Step(t)
      PROVE  WarmOK'
  <2>1. \A u \in Tasks \ {t} : pc'[u] = pc[u] /\ local'[u] = local[u]
        BY <1>2, OnlyItsFrame
  <2>2. ~Cutover(t) => cooling' = cooling
        BY <1>1, <1>2, Cools
  <2>3. ASSUME NEW u \in Tasks \ {t}
        PROVE  Warm(u)'
    <3>1. pc'[u] = pc[u] /\ local'[u] = local[u]
          BY <2>1
    <3>2. CASE pc[u] = "commit" /\ local[u].op = "assign"
      <4>1. <<local[u].b, local[u].i>> \notin cooling'
            BY <1>1, <1>2, <3>2, OthersCool DEF WarmOK, Warm
      <4> QED
          BY <3>1, <3>2, <4>1 DEF Warm, Created, Chosen, Rotating
    <3>3. CASE pc[u] \in Chosen
      <4>1. pc[u] # "idle" /\ local[u].op = "rotate"
            BY <3>3, OldAssignment
      <4>2. <<local[u].b, local[u].i>> \notin cooling'
            BY <1>1, <1>2, <3>3, <4>1, OthersCool DEF WarmOK, Warm
      <4>3. pc[u] \in Created => <<local[u].b, local[u].new>> \notin cooling'
            BY <1>1, <1>2, <4>1, OthersCool DEF WarmOK, Warm
      <4> QED
          BY <3>1, <3>3, <4>2, <4>3 DEF Warm, Chosen, Rotating
    <3>4. Created \subseteq Chosen
          BY DEF Created
    <3> QED
        BY <3>1, <3>2, <3>3, <3>4 DEF Warm
  <2>4. Warm(t)'
    <3>1. CASE Request(t)
      <4>1. PICK f \in Frame : Begin(t, f)
            BY <3>1, RequestEffect
      <4>2. pc'[t] \in {"read", "call", "check"}
            BY <4>1, BeginEffect DEF FrameInv
      <4> QED
          BY <4>2 DEF Warm, Created, Chosen, Rotating
    <3>2. CASE Check(t)
      <4>1. /\ pc'[t] \in {"commit", "call"} /\ local'[t].op = local[t].op
            /\ local'[t].b = local[t].b /\ local'[t].i = local[t].i /\ cooling' = cooling
            BY <3>2, CheckEffect DEF rows
      <4>2. local[t].op = "assign" => <<local[t].b, local[t].i>> \notin cooling
            BY <3>2 DEF Check, Allowed, ReuseAllowed
      <4> QED
          BY <4>1, <4>2 DEF Warm, Created, Chosen, Rotating
    <3>3. CASE Call(t)
      <4>1. pc'[t] = "commit" /\ local'[t].op # "assign"
            BY <3>3 DEF Call, Goto, FrameInv, FramesOK, FrameOK, TypeOK
      <4> QED
          BY <4>1 DEF Warm, Created, Chosen, Rotating
    <3>4. CASE ReadAssignment(t)
      <4>1. PICK a \in ActiveOf(local[t].b) :
               /\ pc'[t] = "create" /\ local'[t].b = local[t].b
               /\ local'[t].i = assignments[a].ip /\ cooling' = cooling
            BY <3>4, ReadEffect DEF rows
      <4>2. PairOf(a) = <<local[t].b, assignments[a].ip>> /\ PairOf(a) \notin cooling
            BY <1>1 DEF ActiveOf, PairOf, WarmOK
      <4> QED
          BY <4>1, <4>2 DEF Warm, Created, Chosen, Rotating
    <3>5. CASE CreateNewIp(t)
      <4>1. PICK i \in Ips :
               /\ Unused(i) /\ pc[t] = "create" /\ pc'[t] = "rehost"
               /\ local'[t].new = i /\ local'[t].b = local[t].b
               /\ local'[t].i = local[t].i /\ cooling' = cooling
            BY <3>5, CreateEffect
      <4>2. pc[t] \in Chosen
            BY <4>1 DEF Chosen, Rotating
      <4>3. local[t].b \in Brokers
            BY <4>2, OldAssignment
      <4>4. <<local[t].b, i>> \notin cooling
            BY <4>1, <4>3 DEF CoolInv, CoolPresent, Present, Unused
      <4> QED
          BY <1>1, <4>1, <4>2, <4>4 DEF WarmOK, Warm
    <3>6. CASE pc'[t] = "idle"
          BY <3>6 DEF Warm, Created, Chosen, Rotating
    <3>7. CASE /\ pc[t] \in Created /\ pc'[t] \in Created /\ pc'[t] # "idle"
               /\ local'[t].b = local[t].b /\ local'[t].i = local[t].i
               /\ local'[t].new = local[t].new
      <4>1. pc[t] \in Chosen /\ pc'[t] # "commit" /\ ~Commit(t)
            BY <3>7 DEF Created, Chosen, Rotating, Commit
      <4>2. ~Cutover(t)
        <5>1. Cutover(t) => pc'[t] = "idle"
              BY ReturnEffect DEF Cutover, FrameInv
        <5> QED
            BY <3>7, <5>1
      <4> QED
          BY <1>1, <2>2, <3>7, <4>1, <4>2 DEF WarmOK, Warm
    <3> QED
        BY <1>2, <3>1, <3>2, <3>3, <3>4, <3>5, <3>6, <3>7, OwnMoves
  <2>5. ASSUME NEW a \in DOMAIN assignments', assignments'[a].status = "active"
        PROVE  <<assignments'[a].broker, assignments'[a].ip>> \notin cooling'
    <3>1. CASE a \in DOMAIN assignments /\ Active(a)
      <4>1. /\ assignments'[a].broker = assignments[a].broker
            /\ assignments'[a].ip = assignments[a].ip
            /\ Cutover(t) => a \notin local[t].asgs
        <5>1. \/ /\ assignments'[a].broker = assignments[a].broker
                 /\ assignments'[a].ip = assignments[a].ip
                 /\ Cutover(t) => a \notin local[t].asgs
              \/ a = Len(assignments) + 1
              \/ Abort(t)
              BY <1>2, <2>5, BecomesActive
        <5>2. Len(assignments) + 1 \notin DOMAIN assignments
              BY DEF FrameInv, TypeOK
        <5>3. Abort(t) => ~Cutover(t) /\ ~Commit(t)
              BY DEF Abort, Cutover, Commit
        <5>4. Abort(t) => /\ assignments'[a].broker = assignments[a].broker
                          /\ assignments'[a].ip = assignments[a].ip
              BY <1>2, <5>3, AssignmentsStep
        <5> QED
            BY <3>1, <5>1, <5>2, <5>3, <5>4
      <4>2. <<assignments[a].broker, assignments[a].ip>> \notin cooling
            BY <1>1, <3>1 DEF WarmOK, PairOf
      <4>3. CASE Cutover(t)
        <5>1. pc[t] \in Chosen
              BY <4>3 DEF Cutover, Chosen, Rotating
        <5>2. ActiveOf(local[t].b) \subseteq local[t].asgs
              BY <5>1 DEF OneInv, SeesActive
        <5>3. assignments[a].broker # local[t].b
              BY <3>1, <4>1, <4>3, <5>2 DEF ActiveOf
        <5>4. cooling' \subseteq cooling \cup {<<local[t].b, local[t].i>>}
              BY <1>1, <1>2, <4>3, Cools
        <5> QED
            BY <4>1, <4>2, <5>3, <5>4
      <4> QED
          BY <2>2, <4>1, <4>2, <4>3
    <3>2. CASE ~(a \in DOMAIN assignments /\ Active(a))
      <4>1. /\ <<assignments'[a].broker, assignments'[a].ip>> \notin cooling
            /\ Cutover(t) => assignments'[a].ip = local[t].new
        <5>1. Cutover(t) => ~Commit(t) /\ ~Abort(t)
              BY DEF Abort, Cutover, Commit
        <5> QED
            BY <1>1, <1>2, <2>5, <3>2, <5>1, ActivatesWarm
      <4>2. CASE Cutover(t)
        <5>1. pc[t] \in Created
              BY <4>2 DEF Cutover, Created, Chosen, Rotating
        <5>2. local[t].new # local[t].i
              BY <5>1 DEF CoolInv, NamedOK, Named
        <5>3. cooling' \subseteq cooling \cup {<<local[t].b, local[t].i>>}
              BY <1>1, <1>2, <4>2, Cools
        <5> QED
            BY <4>1, <4>2, <5>2, <5>3
      <4> QED
          BY <2>2, <4>1, <4>2
    <3> QED
        BY <3>1, <3>2
  <2> QED
      BY <2>3, <2>4, <2>5 DEF WarmOK, Active, PairOf
<1>3. CASE Crash
  <2>1. (\A t \in Tasks : pc'[t] = "idle") /\ UNCHANGED <<assignments, cooling>>
        BY <1>3 DEF Crash, rows
  <2> QED
      BY <1>1, <2>1 DEF WarmOK, Warm, Created, Chosen, Rotating, Active, PairOf
<1>4. CASE Environment \/ UNCHANGED vars
  <2>1. UNCHANGED <<pc, local, assignments>> /\ cooling' \subseteq cooling
        BY <1>4 DEF vars, Environment, RouteOrder, SendOrder, EndOrder, CooldownEnds,
           LockExpires, Destroy, rows
  <2> QED
      BY <1>1, <2>1 DEF WarmOK, Warm, Active, PairOf
<1> QED
    BY <1>2, <1>3, <1>4 DEF Next

LEMMA CoolPresentStep ==
    ASSUME FrameInv, CoolInv, [Next]_vars
    PROVE  CoolPresent'
<1>1. \A i \in Ips : Next /\ Present(i) => Present(i)'
      BY StaysPresent
<1>2. ASSUME Next, NEW b \in Brokers, NEW i \in Ips, <<b, i>> \in cooling
      PROVE  ips'[i].status # "absent"
      BY <1>1, <1>2 DEF CoolInv, CoolPresent, Present
<1>3. ASSUME NEW t \in Tasks, Request(t) \/ Step(t), Next
      PROVE  CoolPresent'
  <2>1. CASE Cutover(t)
    <3>1. pc[t] \in Chosen
          BY <2>1 DEF Cutover, Chosen, Rotating
    <3>2. Present(local[t].i) /\ local[t].i \in Ips
          BY <3>1, OldAssignment DEF CoolInv, NamedOK
    <3>3. ips'[local[t].i].status # "absent"
          BY <1>1, <1>3, <3>2 DEF Present
    <3>4. cooling' \subseteq cooling \cup {<<local[t].b, local[t].i>>}
          BY <1>3, <2>1, Cools DEF CoolInv
    <3> QED
        BY <1>2, <1>3, <3>3, <3>4 DEF CoolPresent, Present
  <2>2. CASE cooling' = cooling
        BY <1>2, <1>3, <2>2 DEF CoolPresent, Present
  <2> QED
      BY <1>3, <2>1, <2>2, Cools DEF CoolInv
<1>4. CASE Crash
  <2>1. cooling' = cooling
        BY <1>4 DEF Crash, rows
  <2> QED
      BY <1>2, <1>4, <2>1 DEF CoolPresent, Present, Next
<1>5. CASE Environment
  <2>1. cooling' \subseteq cooling
        BY <1>5 DEF Environment, RouteOrder, SendOrder, EndOrder, CooldownEnds,
           LockExpires, Destroy, rows
  <2> QED
      BY <1>2, <1>5, <2>1 DEF CoolPresent, Present, Next
<1>6. CASE UNCHANGED vars
      BY <1>6 DEF vars, rows, CoolInv, CoolPresent, Present
<1> QED
    BY <1>3, <1>4, <1>5, <1>6 DEF Next

\* While locks last and nobody releases, CoolInv holds in every state.
LEMMA CoolInvariant ==
    ASSUME ~LocksExpire, "release" \notin Ops PROVE Spec => []CoolInv
<1>1. Init => CoolInv
      BY DEF Init, CoolInv, UnloadedOK, Unloaded, NamedOK, Named, WarmOK, Warm, CoolPresent,
         Created, Chosen, Rotating
<1>2. FrameInv /\ OneInv /\ CoolInv /\ [Next]_vars => CoolInv'
      BY UnloadedStep, NamedStep, WarmStep, CoolPresentStep DEF CoolInv
<1> QED
    BY <1>1, <1>2, FrameInvariant, OneInvariant, PTL DEF Spec

\* BR-G04 with rotation: as long as no request outlives its lock and nobody
\* releases, no pair becomes active while it cools down, be it by an
\* assignment, by the cutover to a new IP or by the return to the old one.
THEOREM NoReuseByRotation ==
    ASSUME ~LocksExpire, "release" \notin Ops PROVE Spec => NoReuseInCooldown
<1> DEFINE Waits == \A a \in DOMAIN assignments' :
                       /\ assignments'[a].status = "active"
                       /\ a \in DOMAIN assignments => ~Active(a)
                       => <<assignments'[a].broker, assignments'[a].ip>> \notin cooling
<1>1. ASSUME FrameInv, CoolInv, Next
      PROVE  Waits
  <2> SUFFICES ASSUME NEW a \in DOMAIN assignments', assignments'[a].status = "active",
                      a \in DOMAIN assignments => ~Active(a)
               PROVE  <<assignments'[a].broker, assignments'[a].ip>> \notin cooling
      OBVIOUS
  <2>1. PICK t \in Tasks : Request(t) \/ Step(t)
    <3>1. assignments' # assignments
          BY DEF Active
    <3> QED
        BY <1>1, <3>1 DEF Next, Crash, Environment, RouteOrder, SendOrder, EndOrder,
           CooldownEnds, LockExpires, Destroy, rows
  <2> QED
      BY <1>1, <2>1, ActivatesWarm DEF CoolInv
<1>2. FrameInv /\ CoolInv /\ [Next]_vars => [Waits]_vars
      BY <1>1
<1> QED
    BY <1>2, FrameInvariant, CoolInvariant, PTL DEF Spec, NoReuseInCooldown
-----------------------------------------------------------------------------
(* The usage history with rotation, where nothing fails.                   *)

Live       == {a \in DOMAIN assignments : assignments[a].status # "released"}
OldLive    == \A t \in Tasks : pc[t] \in Chosen => local[t].asgs \subseteq Live
HistoryInv == OldLive /\ HistoryMatches

\* A broker has one assignment that is active or drains.
LEMMA OneLive ==
    ASSUME FrameInv, OneInv, DrainInv, faults = 0, NEW a \in Live, NEW c \in Live,
           assignments[a].broker = assignments[c].broker
    PROVE  a = c
<1>1. \A x \in Live : assignments[x].status \in {"active", "draining"}
  <2>1. \A x \in DOMAIN assignments : assignments[x] \in Assignment
        BY DEF FrameInv, TypeOK
  <2> QED
      BY <2>1 DEF Live, Assignment
<1>2. ASSUME NEW x \in Live, assignments[x].status = "draining"
      PROVE  \E t \in Tasks : /\ pc[t] \in Chosen /\ local[t].asgs = {x}
                              /\ local[t].b = assignments[x].broker
  <2>1. PICK t \in Tasks : pc[t] \in Marked /\ x \in local[t].asgs
        BY <1>2 DEF DrainInv, Live
  <2>2. pc[t] \in Chosen
        BY <2>1 DEF Marked, Chosen, Rotating
  <2> QED
      BY <2>1, <2>2, OldAssignment
<1>3. ASSUME NEW x \in Live, NEW y \in Live, assignments[x].broker = assignments[y].broker,
             assignments[x].status = "draining"
      PROVE  x = y
  <2>1. PICK t \in Tasks : /\ pc[t] \in Chosen /\ local[t].asgs = {x}
                           /\ local[t].b = assignments[x].broker
        BY <1>2, <1>3
  <2>2. CASE assignments[y].status = "active"
    <3>1. y \in ActiveOf(local[t].b)
          BY <1>3, <2>1, <2>2 DEF ActiveOf, Active, Live
    <3> QED
        BY <2>1, <3>1 DEF OneInv, SeesActive
  <2>3. CASE assignments[y].status = "draining"
    <3>1. PICK u \in Tasks : /\ pc[u] \in Chosen /\ local[u].asgs = {y}
                             /\ local[u].b = assignments[y].broker
          BY <1>2, <2>3
    <3>2. t = u
          BY <1>3, <2>1, <3>1, OldAssignment, BrokerExcludes DEF OneInv
    <3> QED
        BY <2>1, <3>1, <3>2
  <2> QED
      BY <1>1, <2>2, <2>3
<1>4. CASE assignments[a].status = "active" /\ assignments[c].status = "active"
  <2>1. assignments[a].broker \in Brokers
    <3>1. assignments[a] \in Assignment
          BY DEF FrameInv, TypeOK, Live
    <3> QED
        BY <3>1 DEF Assignment
  <2>2. a \in ActiveOf(assignments[a].broker) /\ c \in ActiveOf(assignments[a].broker)
        BY <1>4 DEF ActiveOf, Active, Live
  <2> QED
      BY <2>1, <2>2 DEF OneInv, OneActive
<1> QED
    BY <1>1, <1>3, <1>4

\* What is released was the old assignment of a cutover.
LEMMA ReleasedByCutover ==
    ASSUME FrameInv, UnloadedOK, NEW t \in Tasks, Request(t) \/ Step(t),
           NEW a \in DOMAIN assignments, a \in Live
    PROVE  \/ a \in DOMAIN assignments' /\ assignments'[a].status # "released"
           \/ Cutover(t) /\ a \in local[t].asgs
<1>1. assignments \in Seq(Assignment)
      BY DEF FrameInv, TypeOK
<1>2. CASE Commit(t)
  <2>1. CASE local[t].op = "assign"
        BY <1>2, <2>1, QuietHistory DEF Live
  <2>2. CASE local[t].op # "assign"
    <3>1. local[t].asgs = {}
          BY <1>2 DEF Commit, UnloadedOK, Unloaded
    <3>2. assignments' = MarkAll(assignments, {}, "released")
          BY <1>2, <2>2, <3>1, CommitEffect
    <3> QED
        BY <1>1, <3>2, MarkAllEffect DEF Live
  <2> QED
      BY <2>1, <2>2
<1>3. CASE Cutover(t)
      BY <1>3, CutoverEffect DEF Live
<1>4. CASE MarkDraining(t) \/ Abort(t)
  <2>1. PICK status \in {"active", "draining"} : assignments' = SetOld(t, status)
        BY <1>4 DEF MarkDraining, Abort, Reactivated
  <2> QED
      BY <2>1, SetOldEffect DEF FrameInv, Live
<1>5. CASE ~Commit(t) /\ ~Cutover(t) /\ ~MarkDraining(t) /\ ~Abort(t)
  <2>1. Request(t) => UNCHANGED assignments
        BY RequestEffect, BeginEffect DEF FrameInv, rows
  <2>2. Step(t) => UNCHANGED assignments
        BY <1>5 DEF Step, RotateStep, Check, Refuse, Call, AllocateFails, NoAssignment,
           ReadAssignment, CreateNewIp, CreateNewIpFails, Rehost, RehostFails, Drained,
           DrainTimesOut, BadConfig, CleanUp,
           CleanUpFails, rows
  <2> QED
      BY <2>1, <2>2 DEF Live
<1> QED
    BY <1>2, <1>3, <1>4, <1>5

\* What a request's step does to the assignments that are not released and to
\* the open usage rows.
LEMMA LiveEffect ==
    ASSUME FrameInv, UnloadedOK, OldLive, NEW t \in Tasks, Request(t) \/ Step(t)
    PROVE  LET f == local[t] n == Len(assignments) + 1 IN
           \/ Live' = Live /\ open' = open
           \/ /\ Commit(t) /\ n \notin Live /\ Live' = Live \cup {n}
              /\ assignments'[n].broker = f.b /\ assignments'[n].ip = f.i
              /\ open' = open \cup {<<f.b, f.i>>}
           \/ /\ Cutover(t) /\ n \notin Live /\ Live' = (Live \ f.asgs) \cup {n}
              /\ assignments'[n].broker = f.b /\ assignments'[n].ip = f.new
              /\ open' = (open \ {<<f.b, f.i>>}) \cup {<<f.b, f.new>>}
<1> DEFINE f == local[t]
           n == Len(assignments) + 1
<1>1. CASE Commit(t)
  <2>1. CASE f.op = "assign"
    <3>1. /\ DOMAIN assignments' = DOMAIN assignments \cup {n}
          /\ n \notin DOMAIN assignments
          /\ \A a \in DOMAIN assignments : assignments'[a] = assignments[a]
          /\ assignments'[n].broker = f.b /\ assignments'[n].ip = f.i
          /\ assignments'[n].status = "active"
          /\ open' = open \cup {<<f.b, f.i>>}
          BY <1>1, <2>1, QuietHistory
    <3> HIDE DEF n, f
    <3>2. n \notin Live /\ Live' = Live \cup {n}
          BY <3>1 DEF Live
    <3> QED
        BY <1>1, <3>1, <3>2 DEF n, f
  <2>2. CASE f.op # "assign"
    <3>1. f.asgs = {}
          BY <1>1 DEF Commit, UnloadedOK, Unloaded
    <3>2. /\ DOMAIN assignments' = DOMAIN assignments
          /\ \A a \in DOMAIN assignments :
                assignments'[a].status = IF a \in f.asgs THEN "released"
                                         ELSE assignments[a].status
          /\ open' = open \ {PairOf(a) : a \in f.asgs}
          BY <1>1, <2>2, QuietHistory
    <3> HIDE DEF f
    <3> QED
        BY <3>1, <3>2 DEF Live
  <2> QED
      BY <2>1, <2>2
<1>2. CASE Cutover(t)
  <2>1. /\ DOMAIN assignments' = DOMAIN assignments \cup {n}
        /\ n \notin DOMAIN assignments
        /\ \A a \in DOMAIN assignments :
              assignments'[a].status = IF a \in f.asgs THEN "released"
                                       ELSE assignments[a].status
        /\ assignments'[n] = [broker |-> f.b, ip |-> f.new, status |-> "active"]
        BY <1>2, CutoverEffect
  <2>2. /\ assignments'[n].broker = f.b /\ assignments'[n].ip = f.new
        /\ assignments'[n].status = "active"
        BY <2>1
  <2>3. open' = (open \ {<<f.b, f.i>>}) \cup {<<f.b, f.new>>}
        BY <1>2 DEF Cutover
  <2> HIDE DEF n, f
  <2>4. n \notin Live /\ Live' = (Live \ f.asgs) \cup {n}
        BY <2>1, <2>2 DEF Live
  <2> QED
      BY <1>2, <2>2, <2>3, <2>4 DEF n, f
<1>3. CASE MarkDraining(t) \/ Abort(t)
  <2>1. PICK status \in {"active", "draining"} : assignments' = SetOld(t, status)
        BY <1>3 DEF MarkDraining, Abort, Reactivated
  <2>2. pc[t] \in Chosen /\ open' = open
        BY <1>3 DEF MarkDraining, Abort, Chosen, Rotating
  <2>3. f.asgs \subseteq Live
        BY <2>2 DEF OldLive
  <2>4. /\ DOMAIN assignments' = DOMAIN assignments
        /\ \A a \in DOMAIN assignments :
              \/ assignments'[a].status = assignments[a].status
              \/ a \in f.asgs /\ assignments'[a].status = status
        BY <2>1, SetOldEffect DEF FrameInv
  <2> HIDE DEF f
  <2> QED
      BY <2>2, <2>3, <2>4 DEF Live
<1>4. CASE ~Commit(t) /\ ~Cutover(t) /\ ~MarkDraining(t) /\ ~Abort(t)
  <2>1. Request(t) => UNCHANGED <<assignments, open>>
        BY RequestEffect, BeginEffect DEF FrameInv, rows
  <2>2. Step(t) => UNCHANGED <<assignments, open>>
        BY <1>4 DEF Step, RotateStep, Check, Refuse, Call, AllocateFails, NoAssignment,
           ReadAssignment, CreateNewIp, CreateNewIpFails, Rehost, RehostFails, Drained,
           DrainTimesOut, BadConfig, CleanUp,
           CleanUpFails, rows
  <2> QED
      BY <2>1, <2>2 DEF Live
<1> QED
    BY <1>1, <1>2, <1>3, <1>4

\* The old assignment of a rotation is not released before its cutover.
LEMMA OldLiveStep ==
    ASSUME FrameInv, OneInv, UnloadedOK, OldLive, [Next]_vars
    PROVE  OldLive'
<1>1. ASSUME NEW t \in Tasks, Request(t) \/ Step(t), NEW u \in Tasks, pc'[u] \in Chosen
      PROVE  local'[u].asgs \subseteq Live'
  <2>1. \A a \in Live : a \in Live' \/ (Cutover(t) /\ a \in local[t].asgs)
        BY <1>1, ReleasedByCutover DEF Live
  <2>2. CASE u # t
    <3>1. pc[u] \in Chosen /\ local'[u] = local[u]
          BY <1>1, <2>2, OnlyItsFrame
    <3>2. PICK a \in DOMAIN assignments :
             local[u].asgs = {a} /\ assignments[a].broker = local[u].b
          BY <3>1, OldAssignment
    <3>3. ASSUME Cutover(t), a \in local[t].asgs
          PROVE  FALSE
      <4>1. pc[t] \in Chosen
            BY <3>3 DEF Cutover, Chosen, Rotating
      <4>2. local[t].b = local[u].b
            BY <3>2, <3>3, <4>1, OldAssignment
      <4> QED
          BY <2>2, <3>1, <4>1, <4>2, OldAssignment, BrokerExcludes DEF OneInv
    <3>4. a \in Live
          BY <3>1, <3>2 DEF OldLive
    <3> QED
        BY <2>1, <3>1, <3>2, <3>3, <3>4
  <2>3. CASE u = t
    <3>1. CASE Request(t)
      <4>1. PICK f \in Frame : Begin(t, f)
            BY <3>1, RequestEffect
      <4>2. pc'[t] \in {"read", "call", "check"}
            BY <4>1, BeginEffect DEF FrameInv
      <4> QED
          BY <1>1, <2>3, <4>2 DEF Chosen, Rotating
    <3>2. CASE Check(t) \/ Call(t)
      <4>1. pc'[t] \in {"commit", "call"}
            BY <3>2, CheckEffect DEF Call, Goto, FrameInv, TypeOK
      <4> QED
          BY <1>1, <2>3, <4>1 DEF Chosen, Rotating
    <3>3. CASE ReadAssignment(t)
      <4>1. PICK a \in ActiveOf(local[t].b) :
               local'[t].asgs = {a} /\ assignments' = assignments
            BY <3>3, ReadEffect DEF rows
      <4>2. a \in Live'
            BY <4>1 DEF ActiveOf, Active, Live
      <4> QED
          BY <2>3, <4>1, <4>2
    <3>4. CASE CreateNewIp(t)
      <4>1. pc[t] = "create" /\ local'[t].asgs = local[t].asgs /\ assignments' = assignments
            BY <3>4, CreateEffect
      <4> QED
          BY <2>3, <4>1 DEF OldLive, Live, Chosen, Rotating
    <3>5. CASE pc'[t] = "idle"
          BY <1>1, <2>3, <3>5 DEF Chosen, Rotating
    <3>6. CASE pc[t] \in Created /\ local'[t].asgs = local[t].asgs /\ pc'[t] # "idle"
      <4>1. ~Cutover(t)
            BY <3>6, ReturnEffect DEF Cutover, FrameInv
      <4> QED
          BY <2>1, <2>3, <3>6, <4>1 DEF OldLive, Created
    <3> QED
        BY <1>1, <3>1, <3>2, <3>3, <3>4, <3>5, <3>6, OwnMoves
  <2> QED
      BY <2>2, <2>3
<1>2. CASE Crash
  <2>1. \A t \in Tasks : pc'[t] = "idle"
        BY <1>2 DEF Crash
  <2> QED
      BY <2>1 DEF OldLive, Chosen, Rotating
<1>3. CASE Environment \/ UNCHANGED vars
  <2>1. UNCHANGED <<pc, local, assignments>>
        BY <1>3 DEF vars, Environment, RouteOrder, SendOrder, EndOrder, CooldownEnds,
           LockExpires, Destroy, rows
  <2> QED
      BY <2>1 DEF OldLive, Live
<1>4. (\E t \in Tasks : Request(t) \/ Step(t)) => OldLive'
      BY <1>1 DEF OldLive
<1> QED
    BY <1>2, <1>3, <1>4 DEF Next

\* A usage row is opened with the assignment and closed by the cutover.
LEMMA HistoryRotates ==
    ASSUME FrameInv, OneInv, DrainInv, UnloadedOK, HistoryInv, faults = 0, [Next]_vars
    PROVE  HistoryMatches'
<1>1. \A p : p \in open <=> \E a \in Live : p = <<assignments[a].broker, assignments[a].ip>>
      BY DEF HistoryInv, HistoryMatches, Live, PairOf
<1>2. ASSUME \A p : p \in open' <=>
                \E a \in Live' : p = <<assignments'[a].broker, assignments'[a].ip>>
      PROVE  HistoryMatches'
      BY <1>2 DEF HistoryMatches, Live, PairOf
<1>3. ASSUME NEW t \in Tasks, Request(t) \/ Step(t)
      PROVE  HistoryMatches'
  <2> DEFINE f == local[t]
             n == Len(assignments) + 1
  <2>1. \A a \in Live' \cap Live : /\ assignments'[a].broker = assignments[a].broker
                                   /\ assignments'[a].ip = assignments[a].ip
    <3>1. CASE Commit(t)
          BY <3>1, CommitEffect DEF Live
    <3>2. CASE Cutover(t)
          BY <3>2, CutoverEffect DEF Live
    <3>3. CASE ~Commit(t) /\ ~Cutover(t)
          BY <1>3, <3>3, AssignmentsStep DEF Live
    <3> QED
        BY <3>1, <3>2, <3>3
  <2>2. CASE Live' = Live /\ open' = open
        BY <1>1, <1>2, <2>1, <2>2
  <2>3. CASE /\ n \notin Live /\ Live' = Live \cup {n}
             /\ assignments'[n].broker = f.b /\ assignments'[n].ip = f.i
             /\ open' = open \cup {<<f.b, f.i>>}
    <3>1. \A a \in Live : a \in Live' /\ a # n
          BY <2>3
    <3> HIDE DEF n, f
    <3>2. \A p : p \in open' <=>
             \E a \in Live' : p = <<assignments'[a].broker, assignments'[a].ip>>
          BY <1>1, <2>1, <2>3, <3>1
    <3> QED
        BY <1>2, <3>2
  <2>4. CASE /\ Cutover(t) /\ n \notin Live /\ Live' = (Live \ f.asgs) \cup {n}
             /\ assignments'[n].broker = f.b /\ assignments'[n].ip = f.new
             /\ open' = (open \ {<<f.b, f.i>>}) \cup {<<f.b, f.new>>}
    <3>1. pc[t] \in Chosen
          BY <2>4 DEF Cutover, Chosen, Rotating
    <3>2. PICK a \in DOMAIN assignments :
             f.asgs = {a} /\ assignments[a].broker = f.b /\ assignments[a].ip = f.i
          BY <3>1, OldAssignment
    <3>3. a \in Live
          BY <3>1, <3>2 DEF HistoryInv, OldLive
    <3>4. \A c \in Live : assignments[c].broker = f.b => c = a
          BY <3>2, <3>3, OneLive
    <3> HIDE DEF n, f
    <3>5. \A p : p \in open \ {<<f.b, f.i>>} <=>
             \E c \in Live \ {a} : p = <<assignments[c].broker, assignments[c].ip>>
          BY <1>1, <3>2, <3>4
    <3>6. \A c \in Live \ {a} : c \in Live' \cap Live /\ c # n
          BY <2>4, <3>2
    <3>7. \A p : p \in open' <=>
             \E c \in Live' : p = <<assignments'[c].broker, assignments'[c].ip>>
      <4>1. \A c \in Live' : c \in Live \ {a} \/ c = n
            BY <2>4, <3>2
      <4>2. n \in Live'
            BY <2>4
      <4>3. <<assignments'[n].broker, assignments'[n].ip>> = <<f.b, f.new>>
            BY <2>4
      <4>4. \A c \in Live \ {a} : <<assignments'[c].broker, assignments'[c].ip>>
                                    = <<assignments[c].broker, assignments[c].ip>>
            BY <2>1, <3>6
      <4>5. \A p : p \in open' <=> p \in open \ {<<f.b, f.i>>} \/ p = <<f.b, f.new>>
            BY <2>4
      <4> QED
          BY <3>5, <3>6, <4>1, <4>2, <4>3, <4>4, <4>5
    <3> QED
        BY <1>2, <3>7
  <2> QED
      BY <1>3, <2>2, <2>3, <2>4, LiveEffect DEF HistoryInv
<1>4. CASE Crash \/ Environment \/ UNCHANGED vars
  <2>1. UNCHANGED <<assignments, open>>
        BY <1>4 DEF vars, Crash, Environment, RouteOrder, SendOrder, EndOrder, CooldownEnds,
           LockExpires, Destroy, rows
  <2> QED
      BY <2>1 DEF HistoryInv, HistoryMatches, PairOf
<1> QED
    BY <1>3, <1>4 DEF Next

\* A pair has an open usage row exactly while an assignment of it is active or
\* drains, through rotations too: as long as no request outlives its lock,
\* nobody releases and nothing fails.  A rotation that failed may leave an
\* assignment draining, beside which the same pair can be assigned again.
THEOREM HistoryByRotation ==
    ASSUME ~LocksExpire, "release" \notin Ops, MaxFaults = 0
    PROVE  Spec => []HistoryMatches
<1> DEFINE Inv == DrainInv /\ HistoryInv
<1>1. Init => Inv
      BY DEF Init, DrainInv, HistoryInv, OldLive, HistoryMatches, Chosen, Rotating
<1>2. ASSUME FrameInv, OneInv, CoolInv, Inv, [Next]_vars
      PROVE  Inv'
  <2>1. faults = 0
        BY <1>2 DEF FrameInv, TypeOK
  <2>2. DrainInv' /\ OldLive'
        BY <1>2, DrainStep, OldLiveStep DEF CoolInv, HistoryInv
  <2>3. HistoryMatches'
        BY <1>2, <2>1, HistoryRotates DEF CoolInv
  <2> QED
      BY <2>2, <2>3 DEF HistoryInv
<1>3. Inv => HistoryMatches
      BY DEF HistoryInv
<1> QED
    BY <1>1, <1>2, <1>3, FrameInvariant, OneInvariant, CoolInvariant, PTL DEF Spec
=============================================================================
