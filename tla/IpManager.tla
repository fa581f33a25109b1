------------------------------ MODULE IpManager ------------------------------
(***************************************************************************)
(* Static IPs: allocate, assign, attach, detach, release                   *)
(* (ip_manager/service.py), rotation with its drain and cutover            *)
(* (ip_manager/rotation.py), and the orders that trade from an IP.         *)
(*                                                                         *)
(* Every request is a task with a database session of its own.  Requests   *)
(* exclude one another by Redis locks with a time to live, taken without   *)
(* waiting; a request that finds a lock held returns an error and changes  *)
(* nothing, which is why taking all its locks is one action here.  A       *)
(* commit writes the columns the session changed (Flush).  The outbox rows *)
(* of ip.allocated, ip.released and ip.rotated go with the commits shown   *)
(* and are read by nobody here.                                            *)
(***************************************************************************)
EXTENDS Naturals, Sequences, FiniteSets

CONSTANTS
    Brokers, Ips, Instances, Orders,
    Tasks,          \* the requests that may run at a time
    Ops,            \* the operations requests may ask for
    Forces,         \* values of "force, or the on_timeout policy is FORCE"
    LocksExpire,    \* may a lock's time to live end before its request does?
    MaxAssignments, \* bound: rows of ip_assignments
    MaxFaults,      \* bound: crashes of the API process, configuration values
                    \* read that are no numbers, clean-ups that raise
    None,           \* no instance, no IP, no broker, nobody
    Lost            \* the holder of a lock whose request died

ASSUME IpAssumption ==
    /\ Ops \subseteq {"allocate", "assign", "attach", "detach", "release",
                      "rotate", "destroy"}
    /\ Forces \subseteq BOOLEAN
    /\ LocksExpire \in BOOLEAN
    /\ MaxAssignments \in Nat /\ MaxFaults \in Nat
    /\ None \notin Brokers \cup Ips \cup Instances \cup Tasks
    /\ Lost \notin Tasks \cup {None}

VARIABLES
    ips,         \* static_ips
    cloud,       \* the infrastructure provider's status of each IP
    instances,   \* instances.status
    assignments, \* ip_assignments, in insertion order
    open,        \* (broker, IP) pairs with a usage row not released yet
    cooling,     \* (broker, IP) pairs whose reuse_eligible_at is to come
    orders,      \* where each order is and the IP it trades from
    lock,        \* who holds lock:broker:{b}:ip and lock:ip:{i}
    pc,          \* where each task is
    local,       \* each task's frame
    faults       \* crashes, unreadable values, failed clean-ups so far

rows == <<ips, assignments, open, cooling>>
vars == <<rows, cloud, instances, orders, lock, pc, local, faults>>

IpStatuses == {"absent", "allocated", "attached", "detached", "released"}
IpRow      == [status : IpStatuses, inst : Instances \cup {None}]
Assignment == [broker : Brokers, ip : Ips,
               status : {"active", "draining", "released"}]
Flight     == [stage : {"none", "routed", "counted", "done"},
               ip : Ips \cup {None}]
Keys       == ({"broker"} \X Brokers) \cup ({"ip"} \X Ips)

\* A frame: the request, the loaded IP row, the loaded assignments, and for a
\* rotation the new IP, its loaded row and the loaded status of the old
\* assignment.
Frame == [op : Ops \cup {None}, b : Brokers \cup {None}, i : Ips \cup {None},
          n : Instances \cup {None}, force : BOOLEAN,
          view : IpRow, asgs : SUBSET Nat,
          new : Ips \cup {None}, newView : IpRow,
          loaded : {"active", "draining", "released"}]

AbsentIp  == [status |-> "absent", inst |-> None]
\* The frame of a request that has loaded nothing yet, and of nobody.
Asking(op, b, i, n, force) ==
    [op |-> op, b |-> b, i |-> i, n |-> n, force |-> force, view |-> AbsentIp,
     asgs |-> {}, new |-> None, newView |-> AbsentIp, loaded |-> "active"]
IdleFrame == Asking(None, None, None, None, FALSE)

Rotating == {"read", "create", "rehost", "markDraining", "drain", "abort",
             "cutover", "cleanup"}
Pcs      == {"idle", "check", "call", "commit"} \cup Rotating

Init ==
    /\ ips         = [i \in Ips |-> AbsentIp]
    /\ cloud       = [i \in Ips |-> "absent"]
    /\ instances   = [n \in Instances |-> "running"]
    /\ assignments = <<>>
    /\ open        = {}
    /\ cooling     = {}
    /\ orders      = [o \in Orders |-> [stage |-> "none", ip |-> None]]
    /\ lock        = [k \in Keys |-> None]
    /\ pc          = [t \in Tasks |-> "idle"]
    /\ local       = [t \in Tasks |-> IdleFrame]
    /\ faults      = 0
-----------------------------------------------------------------------------
BrokerLock(b) == <<"broker", b>>
IpLock(i)     == <<"ip", i>>

\* SET key token NX PX for every key.  Mutant: whoever held it.
SeizeLocks(t, keys) == lock' = [k \in Keys |-> IF k \in keys THEN t ELSE lock[k]]
TakeLocks(t, keys) ==
    /\ \A k \in keys : lock[k] = None
    /\ lock' = [k \in Keys |-> IF k \in keys THEN t ELSE lock[k]]

\* Each operation's locks.  Mutant: none.
NoLocks(f) == {}
LocksOf(f) == CASE f.op = "assign"   -> {BrokerLock(f.b), IpLock(f.i)}
                [] f.op = "rotate"   -> {BrokerLock(f.b)}
                [] f.op = "allocate" -> {}
                [] OTHER             -> {IpLock(f.i)}

Goto(t, where) == pc' = [pc EXCEPT ![t] = where]

\* The finally clause: a lock is deleted if the token is still the request's.
Return(t) ==
    /\ Goto(t, "idle")
    /\ local' = [local EXCEPT ![t] = IdleFrame]
    /\ lock' = [k \in Keys |-> IF lock[k] = t THEN None ELSE lock[k]]

\* A commit over row r of what the session loaded as v and changed to n.
Flush(r, v, n) == [status |-> IF n.status # v.status THEN n.status ELSE r.status,
                   inst   |-> IF n.inst # v.inst THEN n.inst ELSE r.inst]

Active(a)     == assignments[a].status = "active"
ActiveOf(b)   == {a \in DOMAIN assignments : Active(a) /\ assignments[a].broker = b}
ActiveOn(i)   == {a \in DOMAIN assignments : Active(a) /\ assignments[a].ip = i}
PairOf(a)     == <<assignments[a].broker, assignments[a].ip>>

\* _assert_reuse_allowed.  Mutant: it always is.
ReuseAnyTime(b, i) == TRUE
ReuseAllowed(b, i) == <<b, i>> \notin cooling

\* The usage rows of the released pairs are closed and start to cool down.
\* Mutant: they are not.
CloseNothing(pairs) == UNCHANGED <<open, cooling>>
Close(pairs) == /\ open' = open \ pairs
                /\ cooling' = cooling \cup (pairs \cap open)

\* create_ip, attach_ip, detach_ip, delete_ip of the provider: the last two
\* ignore an IP it does not know.  Mutant: detaching is forgotten.
NeverDetach(i, status) ==
    [cloud EXCEPT ![i] = IF status = "detached" THEN @ ELSE status]
Provide(i, status) ==
    [cloud EXCEPT ![i] = IF @ = "absent" /\ status \in {"detached", "released"}
                         THEN @ ELSE status]

\* Mutants: a status nobody knows; no assignment is marked.
AddPending(s, b, i) == Append(s, [broker |-> b, ip |-> i, status |-> "pending"])
MarkNone(s, A, status) == s
Add(s, b, i) == Append(s, [broker |-> b, ip |-> i, status |-> "active"])
MarkAll(s, A, status) ==
    [a \in DOMAIN s |-> IF a \in A THEN [s[a] EXCEPT !.status = status] ELSE s[a]]
-----------------------------------------------------------------------------
(* A request starts: the locks of its operation, then its checks.          *)

HasRoom == Len(assignments)
             + Cardinality({t \in Tasks : local[t].op \in {"assign", "rotate"}})
           < MaxAssignments

\* create_ip draws an address the provider does not know; allocate_ip draws
\* again when the row exists.
Unused(i) == /\ cloud[i] = "absent"
             /\ ips[i].status = "absent"
             /\ \A u \in Tasks : i \notin {local[u].i, local[u].new}

Begin(t, f) ==
    /\ pc[t] = "idle"
    /\ f.op \in Ops
    /\ TakeLocks(t, LocksOf(f))
    /\ local' = [local EXCEPT ![t] = f]
    /\ Goto(t, CASE f.op = "rotate"   -> "read"
                 [] f.op = "allocate" -> "call"
                 [] OTHER             -> "check")
    /\ UNCHANGED <<rows, cloud, instances, orders, faults>>

Allocate(t, i) ==
    /\ Unused(i)
    /\ Begin(t, Asking("allocate", None, i, None, FALSE))
Assign(t, b, i) ==
    /\ ips[i].status # "absent" /\ HasRoom
    /\ Begin(t, Asking("assign", b, i, None, FALSE))
Attach(t, i, n) ==
    /\ ips[i].status # "absent"
    /\ Begin(t, Asking("attach", None, i, n, FALSE))
Detach(t, i) ==
    /\ ips[i].status # "absent"
    /\ Begin(t, Asking("detach", None, i, None, FALSE))
Release(t, i) ==
    /\ ips[i].status # "absent"
    /\ Begin(t, Asking("release", None, i, None, FALSE))
Rotate(t, b, force) ==
    /\ HasRoom
    /\ Begin(t, Asking("rotate", b, None, None, force))

\* "Broker already has an active IP assignment".  Mutant: nobody asks.
NoConflictCheck(b) == TRUE
NoActiveIp(b)      == ActiveOf(b) = {}

Allowed(f) ==
    CASE f.op = "assign"  -> /\ ips[f.i].status # "attached"
                             /\ ReuseAllowed(f.b, f.i)
                             /\ NoActiveIp(f.b)
      [] f.op = "attach"  -> instances[f.n] # "destroyed"
      [] f.op = "release" -> ips[f.i].status # "attached"
      [] OTHER            -> TRUE

Check(t) ==
    LET f == local[t] IN
    /\ pc[t] = "check"
    /\ Allowed(f)
    /\ local' = [local EXCEPT ![t].view = ips[f.i],
                              ![t].asgs = IF f.op = "release" THEN ActiveOn(f.i)
                                          ELSE {}]
    /\ Goto(t, IF f.op = "assign" THEN "commit" ELSE "call")
    /\ UNCHANGED <<rows, cloud, instances, orders, lock, faults>>

Refuse(t) ==
    /\ pc[t] = "check"
    /\ ~Allowed(local[t])
    /\ Return(t)
    /\ UNCHANGED <<rows, cloud, instances, orders, faults>>

Provided(op) == CASE op = "allocate" -> "allocated" [] op = "attach" -> "attached"
                  [] op = "detach" -> "detached" [] op = "release" -> "released"
Call(t) ==
    LET f == local[t] IN
    /\ pc[t] = "call"
    /\ cloud' = Provide(f.i, Provided(f.op))
    /\ Goto(t, "commit")
    /\ UNCHANGED <<rows, instances, orders, lock, local, faults>>

\* create_ip raises, or eight addresses in a row are taken.
AllocateFails(t) ==
    /\ pc[t] = "call"
    /\ local[t].op = "allocate"
    /\ Return(t)
    /\ UNCHANGED <<rows, cloud, instances, orders, faults>>

\* The IP row as each operation leaves it.
Changed(f) ==
    CASE f.op = "assign"   -> IF f.view.status = "released"
                              THEN [f.view EXCEPT !.status = "allocated"]
                              ELSE f.view
      [] f.op = "allocate" -> [status |-> "allocated", inst |-> None]
      [] f.op = "attach"   -> [status |-> "attached", inst |-> f.n]
      [] f.op = "detach"   -> [status |-> "detached", inst |-> None]
      [] f.op = "release"  -> [f.view EXCEPT !.status = "released"]

\* The assignments a release loaded.  Mutant: it forgets them.
ForgetAssignments(f) == {}
Loaded(f)            == f.asgs

Commit(t) ==
    LET f == local[t] IN
    /\ pc[t] = "commit"
    /\ ips' = [ips EXCEPT ![f.i] = Flush(@, f.view, Changed(f))]
    /\ IF f.op = "assign"
       THEN /\ assignments' = Add(assignments, f.b, f.i)
            /\ open' = open \cup {<<f.b, f.i>>}
            /\ UNCHANGED cooling
       ELSE /\ assignments' = MarkAll(assignments, Loaded(f), "released")
            /\ Close({PairOf(a) : a \in Loaded(f)})
    /\ Return(t)
    /\ UNCHANGED <<cloud, instances, orders, faults>>

\* destroy_instance: the IPs attached to the instance stay as they are.
Destroy(n) ==
    /\ "destroy" \in Ops
    /\ instances[n] # "destroyed"
    /\ instances' = [instances EXCEPT ![n] = "destroyed"]
    /\ UNCHANGED <<rows, cloud, orders, lock, pc, local, faults>>
-----------------------------------------------------------------------------
(* RotationService.rotate                                                  *)

NoAssignment(t) ==
    /\ pc[t] = "read"
    /\ ActiveOf(local[t].b) = {}
    /\ Return(t)
    /\ UNCHANGED <<rows, cloud, instances, orders, faults>>

\* The first active assignment, and its IP with the instance it is on.
ReadAssignment(t) ==
    /\ pc[t] = "read"
    /\ \E a \in ActiveOf(local[t].b) :
          local' = [local EXCEPT ![t].asgs = {a},
                                 ![t].i = assignments[a].ip,
                                 ![t].n = ips[assignments[a].ip].inst]
    /\ Goto(t, "create")
    /\ UNCHANGED <<rows, cloud, instances, orders, lock, faults>>

\* allocate_ip commits; then the old rows are read again.
CreateNewIp(t) ==
    LET f == local[t] fresh == [status |-> "allocated", inst |-> None] IN
    /\ pc[t] = "create"
    /\ \E i \in Ips :
          /\ Unused(i)
          /\ cloud' = Provide(i, "allocated")
          /\ ips' = [ips EXCEPT ![i] = fresh]
          /\ local' = [local EXCEPT
                         ![t].new = i, ![t].newView = fresh, ![t].view = ips[f.i],
                         ![t].loaded = assignments[CHOOSE a \in f.asgs : TRUE].status]
    /\ Goto(t, "rehost")
    /\ UNCHANGED <<assignments, open, cooling, instances, orders, lock, faults>>

CreateNewIpFails(t) ==
    /\ pc[t] = "create"
    /\ Return(t)
    /\ UNCHANGED <<rows, cloud, instances, orders, faults>>

\* The new IP goes to the old one's instance: attach(), under the new IP's lock.
Rehost(t) ==
    LET f == local[t] hosted == [status |-> "attached", inst |-> f.n] IN
    /\ pc[t] = "rehost"
    /\ IF f.n = None \/ instances[f.n] = "destroyed"
       THEN UNCHANGED <<ips, cloud, local>>
       ELSE /\ lock[IpLock(f.new)] = None
            /\ cloud' = Provide(f.new, "attached")
            /\ ips' = [ips EXCEPT ![f.new] = Flush(@, f.newView, hosted)]
            /\ local' = [local EXCEPT ![t].newView = hosted]
    /\ Goto(t, "markDraining")
    /\ UNCHANGED <<assignments, open, cooling, instances, orders, lock, faults>>

\* attach() finds the lock held, or the instance destroyed since.
RehostFails(t) ==
    LET f == local[t] IN
    /\ pc[t] = "rehost"
    /\ f.n # None
    /\ lock[IpLock(f.new)] # None \/ instances[f.n] = "destroyed"
    /\ Goto(t, "cleanup")
    /\ UNCHANGED <<rows, cloud, instances, orders, lock, local, faults>>

\* A commit that sets the old assignment's status.
SetOld(t, status) ==
    IF local[t].loaded = status THEN assignments
    ELSE MarkAll(assignments, local[t].asgs, status)

MarkDraining(t) ==
    /\ pc[t] = "markDraining"
    /\ assignments' = SetOld(t, "draining")
    /\ local' = [local EXCEPT ![t].loaded = "draining"]
    /\ Goto(t, "drain")
    /\ UNCHANGED <<ips, open, cooling, cloud, instances, orders, lock, faults>>

\* count_inflight.
Inflight(i) == {o \in Orders : orders[o].stage = "counted" /\ orders[o].ip = i}

NoneInflight(i)  == Inflight(i) = {}

Drained(t) ==
    /\ pc[t] = "drain"
    /\ NoneInflight(local[t].i)
    /\ Goto(t, "cutover")
    /\ UNCHANGED <<rows, cloud, instances, orders, lock, local, faults>>

\* The deadline is looked at only after a count that is not zero.  Mutant:
\* there is none.
NoDeadline(i) == FALSE
Deadline(i)   == ~NoneInflight(i)

DrainTimesOut(t) ==
    /\ pc[t] = "drain"
    /\ Deadline(local[t].i)
    /\ Goto(t, IF local[t].force THEN "cutover" ELSE "abort")
    /\ UNCHANGED <<rows, cloud, instances, orders, lock, local, faults>>

\* ip.rotation.drain_timeout_seconds or ip.reuse.cooldown_hours is no number:
\* a rotation cleans up, a release has changed nothing yet.
BadConfig(t) ==
    /\ faults < MaxFaults
    /\ faults' = faults + 1
    /\ \/ pc[t] \in {"drain", "cutover"} /\ Goto(t, "cleanup")
          /\ UNCHANGED <<lock, local>>
       \/ pc[t] = "check" /\ local[t].op = "release" /\ Return(t)
    /\ UNCHANGED <<rows, cloud, instances, orders>>

\* _cleanup_new_ip; the provider's detach_ip and delete_ip never raise.
\* Mutant: it forgets the row.
ForgetNewIp(t) == UNCHANGED <<ips, cloud>>
CleanUpNewIp(t) ==
    LET f == local[t] IN
    /\ cloud' = Provide(f.new, "released")
    /\ ips' = [ips EXCEPT ![f.new] =
                 Flush(@, f.newView, [status |-> "released", inst |-> None])]

\* ROTATION_DRAIN_TIMEOUT.  Mutant: the old assignment stays as it is.
StayDraining(t)  == assignments
Reactivated(t)   == SetOld(t, "active")

Abort(t) ==
    /\ pc[t] = "abort"
    /\ CleanUpNewIp(t)
    /\ assignments' = Reactivated(t)
    /\ Return(t)
    /\ UNCHANGED <<open, cooling, instances, orders, faults>>

\* One commit: the old assignment, its usage rows and its IP are released and
\* the new IP is the broker's.
Cutover(t) ==
    LET f == local[t] IN
    /\ pc[t] = "cutover"
    /\ assignments' = Add(SetOld(t, "released"), f.b, f.new)
    /\ open' = (open \ {<<f.b, f.i>>}) \cup {<<f.b, f.new>>}
    /\ cooling' = cooling \cup ({<<f.b, f.i>>} \cap open)
    /\ IF ips[f.i].status = "attached"
       THEN /\ cloud' = Provide(f.i, "detached")
            /\ ips' = [ips EXCEPT ![f.i] = [status |-> "released", inst |-> None]]
       ELSE /\ ips' = [ips EXCEPT ![f.i].status = "released"]
            /\ UNCHANGED cloud
    /\ Return(t)
    /\ UNCHANGED <<instances, orders, faults>>

\* The finally clause of a rotation that raised.
CleanUp(t) ==
    /\ pc[t] = "cleanup"
    /\ IF ActiveOn(local[t].new) = {} /\ local[t].newView.status # "released"
       THEN CleanUpNewIp(t)
       ELSE UNCHANGED <<ips, cloud>>
    /\ Return(t)
    /\ UNCHANGED <<assignments, open, cooling, instances, orders, faults>>

\* It raises itself and is only logged: nothing is stored, though the provider
\* may have released the IP already.
CleanUpFails(t) ==
    /\ pc[t] = "cleanup"
    /\ faults < MaxFaults
    /\ faults' = faults + 1
    /\ \/ UNCHANGED cloud
       \/ cloud' = Provide(local[t].new, "released")
    /\ Return(t)
    /\ UNCHANGED <<rows, instances, orders>>
-----------------------------------------------------------------------------
(* Orders, as far as they name an IP: the routing engine reads the active  *)
(* assignment, the first attempt stores its IP in the order row, and only  *)
(* FAILED and CANCELLED orders stop counting.                              *)

RouteOrder(o) ==
    /\ orders[o].stage = "none"
    /\ \E a \in DOMAIN assignments :
          /\ Active(a)
          /\ orders' = [orders EXCEPT ![o] =
                          [stage |-> "routed", ip |-> assignments[a].ip]]
    /\ UNCHANGED <<rows, cloud, instances, lock, pc, local, faults>>

SendOrder(o) ==
    /\ orders[o].stage = "routed"
    /\ orders' = [orders EXCEPT ![o].stage = "counted"]
    /\ UNCHANGED <<rows, cloud, instances, lock, pc, local, faults>>

EndOrder(o) ==
    /\ orders[o].stage = "counted"
    /\ orders' = [orders EXCEPT ![o].stage = "done"]
    /\ UNCHANGED <<rows, cloud, instances, lock, pc, local, faults>>
-----------------------------------------------------------------------------
\* reuse_eligible_at of a pair passes.
CooldownEnds(b, i) ==
    /\ <<b, i>> \in cooling
    /\ cooling' = cooling \ {<<b, i>>}
    /\ UNCHANGED <<ips, assignments, open, cloud, instances, orders, lock, pc,
                   local, faults>>

\* A lock's time to live ends: of a request that died, and of one that takes
\* longer if LocksExpire.
LockExpires(k) ==
    /\ lock[k] # None
    /\ LocksExpire \/ lock[k] = Lost
    /\ lock' = [lock EXCEPT ![k] = None]
    /\ UNCHANGED <<rows, cloud, instances, orders, pc, local, faults>>

\* The API process dies.  Its locks stay in Redis; the mock provider's memory
\* and the orders that were not sent are gone.
Crash ==
    /\ faults < MaxFaults
    /\ faults' = faults + 1
    /\ pc' = [t \in Tasks |-> "idle"]
    /\ local' = [t \in Tasks |-> IdleFrame]
    /\ lock' = [k \in Keys |-> IF lock[k] = None THEN None ELSE Lost]
    /\ orders' = [o \in Orders |-> IF orders[o].stage = "routed"
                                   THEN [stage |-> "done", ip |-> orders[o].ip]
                                   ELSE orders[o]]
    /\ cloud' = [i \in Ips |-> "absent"]
    /\ UNCHANGED <<rows, instances>>

Request(t) ==
    \/ \E i \in Ips : Allocate(t, i) \/ Detach(t, i) \/ Release(t, i)
    \/ \E i \in Ips, b \in Brokers : Assign(t, b, i)
    \/ \E i \in Ips, n \in Instances : Attach(t, i, n)
    \/ \E b \in Brokers, force \in Forces : Rotate(t, b, force)

RotateStep(t) ==
    \/ NoAssignment(t) \/ ReadAssignment(t)
    \/ CreateNewIp(t) \/ CreateNewIpFails(t) \/ Rehost(t) \/ RehostFails(t)
    \/ MarkDraining(t) \/ Drained(t) \/ DrainTimesOut(t) \/ BadConfig(t)
    \/ Abort(t) \/ Cutover(t) \/ CleanUp(t) \/ CleanUpFails(t)

Step(t) ==
    \/ Check(t) \/ Refuse(t) \/ Call(t) \/ AllocateFails(t) \/ Commit(t)
    \/ RotateStep(t)

Environment ==
    \/ \E o \in Orders : RouteOrder(o) \/ SendOrder(o) \/ EndOrder(o)
    \/ \E b \in Brokers, i \in Ips : CooldownEnds(b, i)
    \/ \E k \in Keys : LockExpires(k)
    \/ \E n \in Instances : Destroy(n)

Next == Crash \/ Environment \/ \E t \in Tasks : Request(t) \/ Step(t)

Spec == Init /\ [][Next]_vars

\* The event loop runs every task that can go on.
FairSpec == Spec /\ \A t \in Tasks : WF_vars(Step(t))
-----------------------------------------------------------------------------
TypeOK ==
    /\ ips \in [Ips -> IpRow]
    /\ cloud \in [Ips -> IpStatuses]
    /\ instances \in [Instances -> {"running", "destroyed"}]
    /\ assignments \in Seq(Assignment)
    /\ open \in SUBSET (Brokers \X Ips)
    /\ cooling \in SUBSET (Brokers \X Ips)
    /\ orders \in [Orders -> Flight]
    /\ lock \in [Keys -> Tasks \cup {None, Lost}]
    /\ pc \in [Tasks -> Pcs]
    /\ local \in [Tasks -> Frame]
    /\ faults \in 0..MaxFaults

\* "Broker already has an active IP assignment" (ip_manager/service.py:287): a
\* broker has one active IP at most, through assigning, releasing and rotating
\* at once and crashes in between.
OneActivePerBroker == \A b \in Brokers : Cardinality(ActiveOf(b)) <= 1

\* The usage history tells who uses which IP: a pair has an open usage row
\* exactly while an assignment of it is active or draining.
HistoryMatches ==
    open = {PairOf(a) : a \in {a \in DOMAIN assignments :
                                  assignments[a].status # "released"}}

\* The IP a broker trades from is not a released one.
ActiveIpUsable ==
    \A a \in DOMAIN assignments :
        Active(a) => ips[assignments[a].ip].status # "released"

\* BR-G04: a broker gets an IP again only after its cooldown.
NoReuseInCooldown ==
    [][\A a \in DOMAIN assignments' :
          /\ assignments'[a].status = "active"
          /\ a \in DOMAIN assignments => ~Active(a)
          => <<assignments'[a].broker, assignments'[a].ip>> \notin cooling]_vars

\* A row says attached exactly if it names the instance.
InstanceIffAttached ==
    \A i \in Ips : ips[i].status = "attached" <=> ips[i].inst # None

\* The provider and the row agree on whether an IP is attached, whenever no
\* request holds the IP and the provider has not lost its memory.
ProviderAgrees ==
    \A i \in Ips : lock[IpLock(i)] = None /\ faults = 0 =>
        (cloud[i] = "attached" <=> ips[i].status = "attached")

\* As long as nothing failed, an assignment drains only while its rotation
\* runs.
DrainingIsResolved ==
    faults = 0 =>
        \A a \in DOMAIN assignments : assignments[a].status = "draining" =>
            \E t \in Tasks : pc[t] \in Rotating /\ a \in local[t].asgs

\* A rotation that ends has assigned its new IP or released it.
NewIpSettled ==
    [][\A t \in Tasks :
          /\ pc[t] \in Rotating
          /\ pc'[t] = "idle"
          /\ faults' = faults
          /\ local[t].new # None
          => \/ ips'[local[t].new].status = "released"
             \/ \E a \in DOMAIN assignments' :
                   /\ assignments'[a].status = "active"
                   /\ assignments'[a].ip = local[t].new]_vars

\* Every request ends, the drain included.
EveryRequestReturns == \A t \in Tasks : pc[t] # "idle" ~> pc[t] = "idle"
=============================================================================
