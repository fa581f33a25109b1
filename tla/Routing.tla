------------------------------- MODULE Routing -------------------------------
(***************************************************************************)
(* Which brokers an order is offered to, and in which order                *)
(* (routing/engine.py), from the accounts administrators keep              *)
(* (broker/service.py), the health snapshots that probes leave behind      *)
(* (health/service.py), the limiter's windows and the configuration.       *)
(* Nothing probes on a schedule: a snapshot is as old as the last call of  *)
(* the probe endpoint, and is taken by select itself only where there is   *)
(* none at all.                                                            *)
(*                                                                         *)
(* Rates and weights are percentages, latency is a percentage of its       *)
(* budget, scores are in hundredths; the default weights are in force.     *)
(***************************************************************************)
EXTENDS Integers, Sequences, FiniteSets

CONSTANTS
    Brokers, Regions,
    Priorities,  \* priorities an account may have
    Latencies,   \* what a probe may measure
    IpScores,    \* health scores an IP may have
    Thresholds,  \* <<healthy_min, degraded_min>> in configurations
    Limit,       \* calls a broker takes in a window
    MaxChanges,  \* bound: changes of accounts, IPs, configuration, latency, faults
    None

Default == <<80, 50>>

ASSUME RoutingAssumption ==
    /\ IsFiniteSet(Brokers) /\ None \notin {"broker_unavailable", "broker_reject"}
    /\ Priorities \subseteq Nat /\ Latencies \subseteq Nat /\ IpScores \subseteq 0..100
    /\ Default \in Thresholds /\ Thresholds \subseteq Nat \X Nat
    /\ \A t \in Thresholds : 35 < t[2] /\ t[2] <= t[1]
    /\ Limit \in Nat \ {0} /\ MaxChanges \in Nat

VARIABLES
    accounts, \* broker accounts of one client
    ips,      \* the IP actively assigned to each broker, or None
    snaps,    \* its latest health snapshot, or None
    used,     \* calls in its rate-limit window
    config,   \* routing and rate-limit configuration
    latency,  \* what a probe takes
    fault,    \* the broker fault that the simulator injects, or None
    probing,  \* brokers that calls of probe_all have still to probe
    decision, \* the route that was just selected
    changes

given == <<accounts, ips, used, config, latency, fault>>
vars  == <<accounts, ips, snaps, used, config, latency, fault, probing, decision, changes>>

NoDecision == [chain |-> <<>>, excluded |-> <<>>, preferred |-> None, region |-> None]

\* Accounts as they are onboarded, without an IP or each with a fresh one, in
\* some order of priority, before the first probe.
Init ==
    /\ accounts \in [Brokers -> [enabled : {TRUE}, priority : Priorities, regions : {Regions}]]
    /\ ips      \in {[b \in Brokers |-> ip] : ip \in [region : Regions, score : {100}] \cup {None}}
    /\ snaps    = [b \in Brokers |-> None]
    /\ used     = [b \in Brokers |-> 0]
    /\ config   \in [requireIp : {TRUE}, policy : {"REROUTE"}, thresholds : {Default}]
    /\ latency  \in Latencies
    /\ fault    = None
    /\ probing  = {}
    /\ decision = NoDecision
    /\ changes  = 0
-----------------------------------------------------------------------------
(* Health.                                                                 *)

AtMost(x, hi)  == IF x > hi THEN hi ELSE x
AtLeast(x, lo) == IF x < lo THEN lo ELSE x
LatencyScore(l) == AtLeast(AtMost(100 - l, 100), 0)
IpHealth(b) == IF ips[b] = None THEN 50 ELSE ips[b].score

\* What the mock broker's probe reports: success and timeout rates.
Faults == {"broker_unavailable", "broker_reject"}
Success(f)  == CASE f = None -> 100 [] f = "broker_reject" -> 25 [] OTHER -> 0
Timeouts(f) == CASE f = None -> 0   [] f = "broker_reject" -> 15 [] OTHER -> 100
Reachable(f) == f # "broker_unavailable"

\* Mutant: timeouts are no penalty.
ScoreNoTimeouts(l, f, ip) ==
    25 * LatencyScore(l) + 30 * Success(f) + 15 * (IF Reachable(f) THEN 100 ELSE 0)
      + 20 * 100 + 10 * ip
Score(l, f, ip) ==
    25 * LatencyScore(l) + 30 * Success(f) + 15 * (IF Reachable(f) THEN 100 ELSE 0)
      + 20 * (100 - Timeouts(f)) + 10 * ip

Status(score) == IF score >= 100 * config.thresholds[1] THEN "healthy"
                 ELSE IF score >= 100 * config.thresholds[2] THEN "degraded" ELSE "unhealthy"

Snapshot(b, f) ==
    LET score == Score(latency, f, IpHealth(b)) IN
    [connectivity |-> Reachable(f), latency |-> latency, score |-> score,
     status |-> Status(score)]

Probed(S, f) == [b \in Brokers |-> IF b \in S THEN Snapshot(b, f) ELSE snaps[b]]
EnabledOnes  == {b \in Brokers : accounts[b].enabled}
Unprobed     == {b \in EnabledOnes : snaps[b] = None}

\* probe_all lists the enabled brokers and probes one after the other, each
\* with a commit of its own.
ProbeAll ==
    /\ probing' = probing \cup EnabledOnes /\ probing' # probing
    /\ decision' = NoDecision
    /\ UNCHANGED <<given, snaps, changes>>

Probe(b) ==
    /\ b \in probing /\ probing' = probing \ {b}
    /\ snaps' = Probed({b}, fault)
    /\ decision' = NoDecision
    /\ UNCHANGED <<given, changes>>

\* Looking at the health list probes what has no snapshot yet, one by one.
ListHealth(b) ==
    /\ b \in Unprobed
    /\ snaps' = Probed({b}, fault)
    /\ decision' = NoDecision
    /\ UNCHANGED <<given, probing, changes>>
-----------------------------------------------------------------------------
(* RoutingEngine.select.  Its reads are one step: a decision is judged by   *)
(* the values it was made from.                                            *)

Pressure(b) == AtMost((2000 * used[b]) \div Limit, 2000)
Limited(b)  == used[b] >= Limit

\* Why a broker is left out, or "" if it is a candidate.
Reason(b, region, snap) ==
    IF config.requireIp /\ ips[b] = None THEN "NO_ASSIGNED_IP"
    ELSE IF region # None /\ accounts[b].regions # {} /\ region \notin accounts[b].regions
         THEN "REGION_MISMATCH"
    ELSE IF region # None /\ ips[b] # None /\ ips[b].region # region
         THEN "REGION_IP_MISMATCH"
    ELSE IF snap.status = "unhealthy" \/ snap.score < 100 * config.thresholds[2] THEN "UNHEALTHY"
    ELSE IF Limited(b) /\ config.policy = "REJECT" THEN "RATE_LIMITED"
    ELSE ""

\* A limited broker's pressure is raised to 20, the highest there is anyway.
RouteScore(b, preferred, region, snap) ==
    snap.score + 200 * accounts[b].priority - Pressure(b)
      + (IF b = preferred THEN 1500 ELSE 0) + (IF region # None THEN 1000 ELSE 0)

Members(s)   == {s[i] : i \in DOMAIN s}
Orderings(S) == {f \in [1..Cardinality(S) -> S] : Members(f) = S}
Falling(s, score) == \A i, j \in DOMAIN s : i < j => score[s[i]] >= score[s[j]]
Front(s, k) == [i \in DOMAIN s |-> IF i = 1 THEN s[k] ELSE IF i <= k THEN s[i - 1] ELSE s[i]]

\* The preferred broker, if it is a candidate, and the others as sorted.
\* Mutant: the sorted list, the bonus being all the preference there is.
SortedOnly(s, preferred) == s
ChainOf(s, preferred) ==
    IF preferred \in Members(s)
    THEN Front(s, CHOOSE k \in DOMAIN s : s[k] = preferred) ELSE s

Select(preferred, region) ==
    LET snap == Probed(Unprobed, fault)
        reason == [b \in EnabledOnes |-> Reason(b, region, snap[b])]
        candidates == {b \in EnabledOnes : reason[b] = ""}
        score == [b \in candidates |-> RouteScore(b, preferred, region, snap[b])]
    IN
    /\ snaps' = snap
    /\ \E s \in {o \in Orderings(candidates) : Falling(o, score)} :
         decision' = [chain |-> ChainOf(s, preferred), preferred |-> preferred, region |-> region,
                      excluded |-> [b \in EnabledOnes \ candidates |-> reason[b]]]
    /\ UNCHANGED <<given, probing, changes>>
-----------------------------------------------------------------------------
(* What happens meanwhile.                                                 *)

Change == changes < MaxChanges /\ changes' = changes + 1 /\ decision' = NoDecision

Patch(b, row) ==
    /\ Change
    /\ accounts[b] # row /\ accounts' = [accounts EXCEPT ![b] = row]
    /\ UNCHANGED <<ips, used, config, latency, fault, snaps, probing>>

PutConfig(c) ==
    /\ Change
    /\ config # c /\ config' = c
    /\ UNCHANGED <<accounts, ips, used, latency, fault, snaps, probing>>

\* Assignments, rotations and releases: IpManager.
SetIp(b, ip) ==
    /\ Change
    /\ ips[b] # ip /\ ips' = [ips EXCEPT ![b] = ip]
    /\ UNCHANGED <<accounts, used, config, latency, fault, snaps, probing>>

LatencyChanges(l) ==
    /\ Change
    /\ latency # l /\ latency' = l
    /\ UNCHANGED <<accounts, ips, used, config, fault, snaps, probing>>

\* The simulator's endpoints.  Enabling one broker fault disables the other,
\* and probe_all follows: until it has come to a broker, orders are routed by
\* what the broker was before.
Toggled(f, on) == IF on THEN f ELSE IF fault = f THEN None ELSE fault

SetFault(f, on) ==
    /\ Change
    /\ fault' = Toggled(f, on) /\ fault' # fault
    /\ probing' = probing \cup EnabledOnes
    /\ UNCHANGED <<accounts, ips, used, config, latency, snaps>>

ClearFaults ==
    /\ Change
    /\ fault # None /\ fault' = None
    /\ probing' = probing \cup EnabledOnes
    /\ UNCHANGED <<accounts, ips, used, config, latency, snaps>>

\* Calls are counted, and leave the window: Gateway.
SetUsed(b, n) ==
    /\ Change
    /\ used[b] # n /\ used' = [used EXCEPT ![b] = n]
    /\ UNCHANGED <<accounts, ips, config, latency, fault, snaps, probing>>

Rows    == [enabled : BOOLEAN, priority : Priorities, regions : {{}} \cup {{r} : r \in Regions}]
Configs == [requireIp : BOOLEAN, policy : {"REROUTE", "REJECT"}, thresholds : Thresholds]

Next ==
    \/ ProbeAll
    \/ \E p \in Brokers \cup {None}, r \in Regions \cup {None} : Select(p, r)
    \/ \E b \in Brokers :
          \/ Probe(b) \/ ListHealth(b)
          \/ \E row \in Rows : Patch(b, row)
          \/ \E ip \in [region : Regions, score : IpScores] \cup {None} : SetIp(b, ip)
          \/ \E n \in 0..Limit : SetUsed(b, n)
    \/ \E c \in Configs : PutConfig(c)
    \/ \E l \in Latencies : LatencyChanges(l)
    \/ \E f \in Faults, on \in BOOLEAN : SetFault(f, on)
    \/ ClearFaults

Spec == Init /\ [][Next]_vars
-----------------------------------------------------------------------------
Selected   == decision' \notin {decision, NoDecision}

\* Every enabled account is offered the order once or named with a reason, and
\* no other account is; an account that is offered the order has an IP where
\* one is required, of the region asked for.
Accounted ==
    LET d == decision' IN
    /\ Members(d.chain) \cup DOMAIN d.excluded = EnabledOnes
    /\ Members(d.chain) \cap DOMAIN d.excluded = {}
    /\ Len(d.chain) = Cardinality(Members(d.chain))
    /\ \A b \in Members(d.chain) : IF ips[b] = None THEN ~config.requireIp
                                    ELSE d.region \in {None, ips[b].region}

\* The preferred broker comes first whenever it is offered the order at all
\* (engine.py:191); behind it nobody overtakes a better one.
StickyThenBest ==
    LET d == decision'
        score(b) == RouteScore(b, d.preferred, d.region, snaps'[b]) IN
    /\ d.preferred \in Members(d.chain) => d.chain[1] = d.preferred
    /\ \A i, j \in DOMAIN d.chain :
         i < j /\ d.chain[i] # d.preferred => score(d.chain[i]) >= score(d.chain[j])

\* A decision is complete, and in the order that preference and score demand.
DecisionIsRight == [][Selected => Accounted /\ StickyThenBest]_vars

\* An order is never offered to a broker whose last probe failed, and a broker
\* that answered at once, if only to reject, is not left out as unhealthy
\* ("degrade health without fully evacuating the route", broker/mock.py:81),
\* whatever faults, configuration and IPs have become since that probe.
FaultsSteerRoutes ==
    [][Selected =>
        /\ \A b \in Members(decision'.chain) : snaps'[b].connectivity
        /\ \A b \in DOMAIN decision'.excluded :
             decision'.excluded[b] = "UNHEALTHY" /\ snaps'[b].connectivity
             => snaps'[b].latency > 0]_vars
=============================================================================
