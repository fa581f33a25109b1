---------------------------- MODULE RoutingProofs ----------------------------
(***************************************************************************)
(* Proofs about Routing: a decision is complete and in order, for any      *)
(* brokers, regions, priorities, latencies and thresholds; and faults      *)
(* steer orders away from brokers that do not answer and from no others.   *)
(***************************************************************************)
EXTENDS Routing, TLAPS, FiniteSetTheorems

-----------------------------------------------------------------------------
(* The order of the chain.                                                 *)

\* A sequence that orders a set has the set's size.
LEMMA OrderingFacts ==
    ASSUME NEW S, IsFiniteSet(S), NEW s \in Orderings(S)
    PROVE  /\ Cardinality(S) \in Nat /\ DOMAIN s = 1..Cardinality(S) /\ Members(s) = S
           /\ Len(s) = Cardinality(S)
<1> DEFINE n == Cardinality(S)
<1>1. n \in Nat
      BY FS_CardinalityType
<1>2. s \in [1..n -> S] /\ Members(s) = S
      BY DEF Orderings
<1> HIDE DEF n
<1>3. s \in Seq(S) /\ Len(s) = n
      BY <1>1, <1>2
<1> QED
    BY <1>1, <1>2, <1>3 DEF n

\* From the second place on, f lists elements in the order in which s has them.
KeepsOrder(f, s, n) ==
    \A i, j \in 1..n : i < j /\ i # 1 => \E p, q \in 1..n : p < q /\ f[i] = s[p] /\ f[j] = s[q]

\* Moving an element to the front keeps the members, and the order of the rest.
LEMMA FrontFacts ==
    ASSUME NEW n \in Nat, NEW S, NEW s \in [1..n -> S], NEW k \in 1..n
    PROVE  /\ Front(s, k) \in [1..n -> S] /\ Len(Front(s, k)) = n
           /\ Members(Front(s, k)) = Members(s) /\ Front(s, k)[1] = s[k]
           /\ KeepsOrder(Front(s, k), s, n)
<1> DEFINE f == Front(s, k)
<1>1. /\ f = [i \in 1..n |-> IF i = 1 THEN s[k] ELSE IF i <= k THEN s[i - 1] ELSE s[i]]
      BY DEF Front
<1> HIDE DEF f
<1>2. \A i \in 1..n : i # 1 => i - 1 \in 1..n
      OBVIOUS
<1>3. f \in [1..n -> S]
      BY <1>1, <1>2
<1>4. f \in Seq(S) /\ Len(f) = n
      BY <1>3
<1>5. f[1] = s[k]
      BY <1>1
<1>6. \A i \in 1..n : \E p \in 1..n : f[i] = s[p]
      BY <1>1, <1>2
<1>7. ASSUME NEW p \in 1..n PROVE \E i \in 1..n : f[i] = s[p]
  <2>1. CASE p = k
        BY <1>5, <2>1
  <2>2. CASE p < k
    <3>1. p + 1 \in 1..n /\ p + 1 # 1 /\ p + 1 <= k /\ (p + 1) - 1 = p
          BY <2>2
    <3> QED
        BY <1>1, <3>1
  <2>3. CASE p > k
    <3>1. p # 1 /\ ~(p <= k)
          BY <2>3
    <3> QED
        BY <1>1, <3>1
  <2> QED
      BY <2>1, <2>2, <2>3
<1>8. Members(f) = Members(s)
  <2>1. DOMAIN f = 1..n /\ DOMAIN s = 1..n
        BY <1>3
  <2>2. \A x : x \in Members(f) <=> \E i \in 1..n : x = f[i]
        BY <2>1 DEF Members
  <2>3. \A x : x \in Members(s) <=> \E i \in 1..n : x = s[i]
        BY <2>1 DEF Members
  <2>4. \A x : x \in Members(f) <=> x \in Members(s)
        BY <1>6, <1>7, <2>2, <2>3
  <2> QED
      BY <2>4
<1>9. ASSUME NEW i \in 1..n, NEW j \in 1..n, i < j, i # 1
      PROVE  \E p, q \in 1..n : p < q /\ f[i] = s[p] /\ f[j] = s[q]
  <2>1. CASE j <= k
    <3>1. f[i] = s[i - 1] /\ f[j] = s[j - 1] /\ i - 1 < j - 1
          BY <1>1, <1>9, <2>1
    <3>2. i - 1 \in 1..n /\ j - 1 \in 1..n
          BY <1>9
    <3> QED
        BY <3>1, <3>2
  <2>2. CASE i <= k /\ ~(j <= k)
    <3>1. f[i] = s[i - 1] /\ f[j] = s[j] /\ i - 1 < j /\ i - 1 \in 1..n
          BY <1>1, <1>9, <2>2
    <3> QED
        BY <3>1
  <2>3. CASE ~(i <= k)
    <3>1. f[i] = s[i] /\ f[j] = s[j]
          BY <1>1, <1>9, <2>3
    <3> QED
        BY <1>9, <3>1
  <2> QED
      BY <2>1, <2>2, <2>3
<1>10. KeepsOrder(f, s, n)
       BY <1>9 DEF KeepsOrder
<1> QED
    BY <1>3, <1>4, <1>5, <1>8, <1>10 DEF f

\* The chain: the candidates, each once, the preferred one first and the others
\* with falling scores.
LEMMA ChainFacts ==
    ASSUME NEW S, IsFiniteSet(S), NEW s \in Orderings(S), NEW preferred, NEW score,
           Falling(s, score)
    PROVE  LET c == ChainOf(s, preferred) IN
           /\ Members(c) = S /\ Len(c) = Cardinality(S) /\ DOMAIN c = 1..Cardinality(S)
           /\ preferred \in S => c[1] = preferred
           /\ \A i, j \in DOMAIN c : i < j /\ c[i] # preferred => score[c[i]] >= score[c[j]]
<1> DEFINE n == Cardinality(S)
           c == ChainOf(s, preferred)
<1>1. /\ n \in Nat /\ DOMAIN s = 1..n /\ Members(s) = S /\ Len(s) = n /\ s \in [1..n -> S]
      BY OrderingFacts DEF Orderings
<1> HIDE DEF n
<1>2. \A i, j \in 1..n : i < j => score[s[i]] >= score[s[j]]
      BY <1>1 DEF Falling
<1>3. CASE preferred \notin S
  <2>1. c = s
        BY <1>1, <1>3 DEF ChainOf
  <2> HIDE DEF c
  <2>2. \A i, j \in DOMAIN c : i < j => score[c[i]] >= score[c[j]]
        BY <1>1, <1>2, <2>1
  <2>3. Members(c) = S /\ Len(c) = n /\ DOMAIN c = 1..n
        BY <1>1, <2>1
  <2> QED
      BY <1>3, <2>2, <2>3 DEF n, c
<1>4. CASE preferred \in S
  <2> DEFINE k == CHOOSE k \in DOMAIN s : s[k] = preferred
  <2>1. k \in 1..n /\ s[k] = preferred
        BY <1>1, <1>4 DEF Members
  <2>2. c = Front(s, k)
        BY <1>1, <1>4 DEF ChainOf
  <2> HIDE DEF c, k
  <2>3. /\ c \in [1..n -> S] /\ Len(c) = n /\ Members(c) = S /\ c[1] = preferred
        /\ KeepsOrder(c, s, n)
    <3>1. n \in Nat /\ s \in [1..n -> S]
          BY <1>1
    <3>2. /\ Front(s, k) \in [1..n -> S] /\ Len(Front(s, k)) = n
          /\ Members(Front(s, k)) = Members(s) /\ Front(s, k)[1] = s[k]
          /\ KeepsOrder(Front(s, k), s, n)
          BY <3>1, <2>1, FrontFacts
    <3> QED
        BY <1>1, <2>1, <2>2, <3>2
  <2>4. ASSUME NEW i \in 1..n, NEW j \in 1..n, i < j, c[i] # preferred
        PROVE  score[c[i]] >= score[c[j]]
    <3>1. PICK p \in 1..n, q \in 1..n : p < q /\ c[i] = s[p] /\ c[j] = s[q]
          BY <2>3, <2>4 DEF KeepsOrder
    <3> QED
        BY <1>2, <3>1
  <2> QED
      BY <1>4, <2>3, <2>4 DEF n, c
<1> QED
    BY <1>3, <1>4
-----------------------------------------------------------------------------
(* A decision is complete and in order.                                    *)

\* What select computes before it decides.
SnapsSeen      == Probed(Unprobed, fault)
Whys(region)   == [b \in EnabledOnes |-> Reason(b, region, SnapsSeen[b])]
Fit(region)    == {b \in EnabledOnes : Whys(region)[b] = ""}
Scores(preferred, region) ==
    [b \in Fit(region) |-> RouteScore(b, preferred, region, SnapsSeen[b])]

\* A decision comes from select: a sorted list of the candidates, the preferred
\* one moved to its head, and a reason for each of the others.
LEMMA SelectedBySelect ==
    ASSUME Next, Selected
    PROVE  \E p \in Brokers \cup {None}, r \in Regions \cup {None} : Select(p, r)
<1> SUFFICES ASSUME ~\E p \in Brokers \cup {None}, r \in Regions \cup {None} : Select(p, r)
             PROVE  decision' = NoDecision
    BY DEF Selected
<1> QED
    BY Zenon DEF Next, ProbeAll, Probe, ListHealth, Change, Patch, PutConfig, SetIp,
       LatencyChanges, SetFault, ClearFaults, SetUsed

LEMMA SelectOutcome ==
    ASSUME NEW p, NEW r, Select(p, r)
    PROVE  /\ snaps' = SnapsSeen
           /\ \E s \in Orderings(Fit(r)) :
                /\ Falling(s, Scores(p, r))
                /\ decision' = [chain |-> ChainOf(s, p), preferred |-> p, region |-> r,
                                excluded |-> [b \in EnabledOnes \ Fit(r) |-> Whys(r)[b]]]
<1> QED
    BY Zenon DEF Select, SnapsSeen, Whys, Fit, Scores

\* A candidate has an IP where one is required, of the region asked for, and its
\* score is at least the threshold in force.
LEMMA CandidateFacts ==
    ASSUME NEW r, NEW b \in Fit(r)
    PROVE  /\ b \in EnabledOnes
           /\ IF ips[b] = None THEN ~config.requireIp ELSE r \in {None, ips[b].region}
           /\ ~(SnapsSeen[b].score < 100 * config.thresholds[2])
<1>1. b \in EnabledOnes /\ Reason(b, r, SnapsSeen[b]) = ""
      BY DEF Fit, Whys
<1> QED
    BY <1>1, ZenonT(30) DEF Reason

\* The sorted list orders a finite set, so the chain holds each candidate once.
LEMMA CandidatesFinite ==
    ASSUME NEW r
    PROVE  IsFiniteSet(Fit(r)) /\ Fit(r) \subseteq EnabledOnes
<1>1. IsFiniteSet(Brokers) /\ Fit(r) \subseteq EnabledOnes /\ EnabledOnes \subseteq Brokers
      BY RoutingAssumption DEF Fit, EnabledOnes
<1> QED
    BY <1>1, FS_Subset

LEMMA DecisionHolds ==
    ASSUME Next, Selected
    PROVE  Accounted /\ StickyThenBest
<1>1. PICK p \in Brokers \cup {None}, r \in Regions \cup {None} : Select(p, r)
      BY SelectedBySelect
<1>2. snaps' = SnapsSeen
      BY <1>1, SelectOutcome
<1>3. PICK s \in Orderings(Fit(r)) :
         /\ Falling(s, Scores(p, r))
         /\ decision' = [chain |-> ChainOf(s, p), preferred |-> p, region |-> r,
                         excluded |-> [b \in EnabledOnes \ Fit(r) |-> Whys(r)[b]]]
      BY <1>1, SelectOutcome, Zenon
<1> DEFINE c == ChainOf(s, p)
           S == Fit(r)
           x == [b \in EnabledOnes \ S |-> Whys(r)[b]]
           score == Scores(p, r)
<1>4. /\ decision'.chain = c /\ decision'.preferred = p /\ decision'.region = r
      /\ decision'.excluded = x
      BY <1>3
<1>5. IsFiniteSet(S) /\ S \subseteq EnabledOnes
      BY CandidatesFinite
<1>6. /\ Members(c) = S /\ Len(c) = Cardinality(S) /\ DOMAIN c = 1..Cardinality(S)
      /\ p \in S => c[1] = p
      /\ \A i, j \in DOMAIN c : i < j /\ c[i] # p => score[c[i]] >= score[c[j]]
      BY <1>3, <1>5, ChainFacts
<1>7. \A b \in S : score[b] = RouteScore(b, p, r, snaps'[b])
      BY <1>2 DEF Scores
<1>8. DOMAIN x = EnabledOnes \ S
      OBVIOUS
<1>9. \A b \in S : IF ips[b] = None THEN ~config.requireIp ELSE r \in {None, ips[b].region}
      BY CandidateFacts, Zenon
<1> HIDE DEF c, S, x, score
<1>10. Accounted
  <2>1. /\ Members(c) \cup DOMAIN x = EnabledOnes /\ Members(c) \cap DOMAIN x = {}
        /\ Len(c) = Cardinality(Members(c))
        BY <1>5, <1>6, <1>8
  <2> QED
      BY <1>4, <1>6, <1>9, <2>1, Zenon DEF Accounted
<1>11. StickyThenBest
  <2>1. \A i \in DOMAIN c : c[i] \in S
        BY <1>6 DEF Members
  <2>2. ASSUME NEW i \in DOMAIN c, NEW j \in DOMAIN c, i < j, c[i] # p
        PROVE  RouteScore(c[i], p, r, snaps'[c[i]]) >= RouteScore(c[j], p, r, snaps'[c[j]])
        BY <1>6, <1>7, <2>1, <2>2
  <2> QED
      BY <1>4, <1>6, <2>2 DEF StickyThenBest
<1> QED
    BY <1>10, <1>11

\* Every enabled account is offered an order once or named with a reason, on an
\* IP of the region asked for; the preferred broker is first whenever it is
\* offered the order, and behind it nobody overtakes a better one.
THEOREM DecisionsAreRight == Spec => DecisionIsRight
<1>1. ASSUME [Next]_vars PROVE Selected => Accounted /\ StickyThenBest
  <2>1. CASE UNCHANGED vars
        BY <2>1 DEF vars, Selected
  <2>2. CASE Next
        BY <2>2, DecisionHolds
  <2> QED
      BY <1>1, <2>1, <2>2
<1> QED
    BY <1>1, PTL DEF Spec, DecisionIsRight
-----------------------------------------------------------------------------
(* Faults steer routes.                                                    *)

\* No configuration asks more of a degraded broker than what one scores that
\* answers at once and rejects: 6450 hundredths.
RejectingPasses == \A t \in Thresholds : t[2] <= 64

\* A snapshot, however old, tells a broker that does not answer from one that
\* answers at once.
SnapOK(s) ==
    /\ s.latency \in Nat /\ s.score \in Int
    /\ ~s.connectivity => s.score <= 3500
    /\ s.connectivity /\ s.latency = 0 => s.score >= 6450 /\ s.status # "unhealthy"

\* What a probe reads, and what it leaves behind.
WorldOK ==
    /\ latency \in Nat /\ fault \in Faults \cup {None}
    /\ config.thresholds \in Thresholds
    /\ ips \in [Brokers -> [region : Regions, score : 0..100] \cup {None}]
SnapsInv == WorldOK /\ \A b \in Brokers : snaps[b] = None \/ SnapOK(snaps[b])

\* The bars a score is held against: a broker that does not answer stays below
\* every one of them.
LEMMA Bars ==
    ASSUME RejectingPasses, NEW t \in Thresholds
    PROVE  /\ t[1] \in Nat /\ t[2] \in Nat /\ t[2] <= t[1]
           /\ 3500 < 100 * t[2] /\ 100 * t[2] <= 6400
<1>1. t \in Nat \X Nat /\ 35 < t[2] /\ t[2] <= t[1] /\ t[2] <= 64
      BY RoutingAssumption DEF RejectingPasses
<1>2. t[1] \in Nat /\ t[2] \in Nat
      BY <1>1
<1> QED
    BY <1>1, <1>2

\* What the score adds up to under each fault.
ScoreOK(l, f, ip) ==
    /\ Score(l, f, ip) \in Int
    /\ f = "broker_unavailable" => Score(l, f, ip) <= 3500
    /\ f # "broker_unavailable" /\ l = 0 => Score(l, f, ip) >= 6450

LEMMA ScoreBounds ==
    ASSUME NEW l \in Nat, NEW f \in Faults \cup {None}, NEW ip \in 0..100
    PROVE  ScoreOK(l, f, ip)
<1> USE DEF ScoreOK
<1>1. LatencyScore(l) \in 0..100 /\ (l = 0 => LatencyScore(l) = 100)
      BY DEF LatencyScore, AtMost, AtLeast
<1>2. None # "broker_unavailable" /\ None # "broker_reject"
      BY RoutingAssumption
<1>3. CASE f = None
  <2>1. Score(l, f, ip) = 25 * LatencyScore(l) + 30 * 100 + 15 * 100 + 20 * (100 - 0) + 10 * ip
        BY <1>2, <1>3 DEF Score, Success, Timeouts, Reachable
  <2> QED
      BY <1>1, <1>2, <1>3, <2>1
<1>4. CASE f = "broker_reject"
  <2>1. Score(l, f, ip) = 25 * LatencyScore(l) + 30 * 25 + 15 * 100 + 20 * (100 - 15) + 10 * ip
        BY <1>2, <1>4 DEF Score, Success, Timeouts, Reachable
  <2> QED
      BY <1>1, <1>4, <2>1
<1>5. CASE f = "broker_unavailable"
  <2>1. Score(l, f, ip) = 25 * LatencyScore(l) + 30 * 0 + 15 * 0 + 20 * (100 - 100) + 10 * ip
        BY <1>2, <1>5 DEF Score, Success, Timeouts, Reachable
  <2> QED
      BY <1>1, <1>5, <2>1
<1> QED
    BY <1>3, <1>4, <1>5 DEF Faults

LEMMA SnapshotFacts ==
    ASSUME RejectingPasses, WorldOK, NEW b \in Brokers, NEW f \in Faults \cup {None}
    PROVE  SnapOK(Snapshot(b, f))
<1> DEFINE x == Score(latency, f, IpHealth(b))
           s == Snapshot(b, f)
<1>1. IpHealth(b) \in 0..100
  <2>1. CASE ips[b] = None
        BY <2>1 DEF IpHealth
  <2>2. CASE ips[b] # None
    <3>1. ips[b] \in [region : Regions, score : 0..100]
          BY <2>2 DEF WorldOK
    <3> QED
        BY <2>2, <3>1 DEF IpHealth
  <2> QED
      BY <2>1, <2>2
<1>2. /\ x \in Int
      /\ f = "broker_unavailable" => x <= 3500
      /\ f # "broker_unavailable" /\ latency = 0 => x >= 6450
  <2>1. latency \in Nat
        BY DEF WorldOK
  <2>2. ScoreOK(latency, f, IpHealth(b))
        BY <1>1, <2>1, ScoreBounds, Zenon
  <2> QED
      BY <2>2 DEF ScoreOK
<1> HIDE DEF x
<1>3. s = [connectivity |-> Reachable(f), latency |-> latency, score |-> x, status |-> Status(x)]
      BY DEF Snapshot, x
<1>4. x >= 6450 => Status(x) # "unhealthy"
      BY <1>2, Bars DEF Status, WorldOK
<1> HIDE DEF s
<1>5. /\ s.connectivity = Reachable(f) /\ s.latency = latency /\ s.score = x
      /\ s.status = Status(x)
      BY <1>3
<1>6. SnapOK(s)
  <2>1. latency \in Nat
        BY DEF WorldOK
  <2>2. CASE f = "broker_unavailable"
    <3>1. ~s.connectivity
          BY <1>5, <2>2 DEF Reachable
    <3> QED
        BY <1>2, <1>5, <2>1, <2>2, <3>1 DEF SnapOK
  <2>3. CASE f # "broker_unavailable"
    <3>1. s.connectivity
          BY <1>5, <2>3 DEF Reachable
    <3> QED
        BY <1>2, <1>4, <1>5, <2>1, <2>3, <3>1 DEF SnapOK
  <2> QED
      BY <2>2, <2>3
<1> QED
    BY <1>6 DEF s

LEMMA ProbedFacts ==
    ASSUME RejectingPasses, SnapsInv, NEW S, NEW f \in Faults \cup {None}, NEW b \in Brokers
    PROVE  /\ Probed(S, f)[b] = None \/ SnapOK(Probed(S, f)[b])
           /\ b \in S => SnapOK(Probed(S, f)[b])
<1>1. SnapOK(Snapshot(b, f))
      BY SnapshotFacts DEF SnapsInv
<1>2. Probed(S, f)[b] = IF b \in S THEN Snapshot(b, f) ELSE snaps[b]
      BY DEF Probed
<1> QED
    BY <1>1, <1>2 DEF SnapsInv

LEMMA InitSnaps == Init => SnapsInv
<1> SUFFICES ASSUME Init PROVE SnapsInv
    OBVIOUS
<1>1. latency \in Nat /\ fault \in Faults \cup {None}
      BY RoutingAssumption DEF Init
<1>2. config.thresholds \in Thresholds
      BY RoutingAssumption DEF Init
<1>3. ips \in [Brokers -> [region : Regions, score : 0..100] \cup {None}]
  <2>1. PICK ip \in [region : Regions, score : {100}] \cup {None} : ips = [b \in Brokers |-> ip]
        BY DEF Init
  <2>2. ip \in [region : Regions, score : 0..100] \cup {None}
        OBVIOUS
  <2> QED
      BY <2>1, <2>2
<1>4. \A b \in Brokers : snaps[b] = None
      BY DEF Init
<1> QED
    BY <1>1, <1>2, <1>3, <1>4 DEF SnapsInv, WorldOK

\* One step of the world, and what it leaves of the snapshots.
LEMMA NextWorld ==
    ASSUME WorldOK, Next
    PROVE  WorldOK'
<1> USE DEF WorldOK
<1>1. CASE ProbeAll
      BY <1>1 DEF ProbeAll, given
<1>2. ASSUME NEW b \in Brokers, Probe(b) \/ ListHealth(b)
      PROVE  WorldOK'
      BY <1>2 DEF Probe, ListHealth, given
<1>3. ASSUME NEW p \in Brokers \cup {None}, NEW r \in Regions \cup {None}, Select(p, r)
      PROVE  WorldOK'
  <2>1. UNCHANGED given
        BY <1>3 DEF Select
  <2> QED
      BY <2>1 DEF given
<1>4. ASSUME NEW b \in Brokers, NEW row \in Rows, Patch(b, row)
      PROVE  WorldOK'
      BY <1>4 DEF Patch
<1>5. ASSUME NEW b \in Brokers, NEW ip \in [region : Regions, score : IpScores] \cup {None},
             SetIp(b, ip)
      PROVE  WorldOK'
  <2>1. ip \in [region : Regions, score : 0..100] \cup {None}
        BY RoutingAssumption
  <2>2. ips' = [ips EXCEPT ![b] = ip] /\ UNCHANGED <<config, latency, fault>>
        BY <1>5 DEF SetIp
  <2> QED
      BY <2>1, <2>2
<1>6. ASSUME NEW b \in Brokers, NEW n \in 0..Limit, SetUsed(b, n)
      PROVE  WorldOK'
      BY <1>6 DEF SetUsed
<1>7. ASSUME NEW c \in Configs, PutConfig(c)
      PROVE  WorldOK'
      BY <1>7 DEF PutConfig, Configs
<1>8. ASSUME NEW l \in Latencies, LatencyChanges(l)
      PROVE  WorldOK'
      BY <1>8, RoutingAssumption DEF LatencyChanges
<1>9. ASSUME NEW f \in Faults, NEW on \in BOOLEAN, SetFault(f, on)
      PROVE  WorldOK'
      BY <1>9 DEF SetFault, Toggled
<1>10. CASE ClearFaults
       BY <1>10 DEF ClearFaults
<1> QED
    BY <1>1, <1>2, <1>3, <1>4, <1>5, <1>6, <1>7, <1>8, <1>9, <1>10 DEF Next

LEMMA SnapshotsChangeByProbe ==
    ASSUME Next
    PROVE  \/ UNCHANGED snaps
           \/ \E S \in SUBSET Brokers : snaps' = Probed(S, fault)
<1>1. /\ Unprobed \in SUBSET Brokers /\ \A b \in Brokers : {b} \in SUBSET Brokers
      BY DEF EnabledOnes, Unprobed
<1>2. ASSUME NEW b \in Brokers, Probe(b) \/ ListHealth(b)
      PROVE  snaps' = Probed({b}, fault)
      BY <1>2 DEF Probe, ListHealth
<1>3. ASSUME NEW p \in Brokers \cup {None}, NEW r \in Regions \cup {None}, Select(p, r)
      PROVE  snaps' = Probed(Unprobed, fault)
      BY <1>3, Zenon DEF Select
<1>4. CASE ProbeAll \/ ClearFaults \/ \E f \in Faults, on \in BOOLEAN : SetFault(f, on)
      BY <1>4 DEF ProbeAll, ClearFaults, SetFault
<1>5. CASE \/ \E b \in Brokers :
                \/ \E row \in Rows : Patch(b, row)
                \/ \E ip \in [region : Regions, score : IpScores] \cup {None} : SetIp(b, ip)
                \/ \E n \in 0..Limit : SetUsed(b, n)
           \/ \E c \in Configs : PutConfig(c)
           \/ \E l \in Latencies : LatencyChanges(l)
      BY <1>5, Zenon DEF Patch, SetIp, SetUsed, PutConfig, LatencyChanges
<1> QED
    BY <1>1, <1>2, <1>3, <1>4, <1>5 DEF Next

LEMMA NextSnaps ==
    ASSUME RejectingPasses, SnapsInv, [Next]_vars
    PROVE  SnapsInv'
<1>1. CASE UNCHANGED vars
      BY <1>1 DEF vars, SnapsInv, WorldOK
<1>2. CASE Next
  <2>1. WorldOK'
        BY <1>2, NextWorld DEF SnapsInv
  <2>2. fault \in Faults \cup {None}
        BY DEF SnapsInv, WorldOK
  <2>3. CASE UNCHANGED snaps
        BY <2>1, <2>3 DEF SnapsInv
  <2>4. CASE \E S \in SUBSET Brokers : snaps' = Probed(S, fault)
    <3>1. PICK S \in SUBSET Brokers : snaps' = Probed(S, fault)
          BY <2>4
    <3>2. \A b \in Brokers : snaps'[b] = None \/ SnapOK(snaps'[b])
          BY <2>2, <3>1, ProbedFacts
    <3> QED
        BY <2>1, <3>2 DEF SnapsInv
  <2> QED
      BY <1>2, <2>3, <2>4, SnapshotsChangeByProbe
<1> QED
    BY <1>1, <1>2

LEMMA SnapsInvariant ==
    ASSUME RejectingPasses
    PROVE  Spec => []SnapsInv
<1>1. SnapsInv /\ [Next]_vars => SnapsInv'
      BY NextSnaps
<1> QED
    BY InitSnaps, <1>1, PTL DEF Spec

\* Select has a snapshot of every enabled account.
LEMMA SeenFacts ==
    ASSUME RejectingPasses, SnapsInv, NEW b \in EnabledOnes
    PROVE  SnapOK(SnapsSeen[b])
<1>1. b \in Brokers /\ fault \in Faults \cup {None}
      BY DEF EnabledOnes, SnapsInv, WorldOK
<1>2. CASE b \in Unprobed
      BY <1>1, <1>2, ProbedFacts DEF SnapsSeen
<1>3. CASE b \notin Unprobed
  <2>1. snaps[b] # None
        BY <1>3 DEF Unprobed
  <2>2. SnapsSeen[b] = snaps[b]
        BY <1>1, <1>3 DEF SnapsSeen, Probed
  <2> QED
      BY <1>1, <2>1, <2>2 DEF SnapsInv
<1> QED
    BY <1>2, <1>3

LEMMA UnhealthyFacts ==
    ASSUME NEW r, NEW b \in EnabledOnes, Whys(r)[b] = "UNHEALTHY"
    PROVE  \/ SnapsSeen[b].status = "unhealthy"
           \/ SnapsSeen[b].score < 100 * config.thresholds[2]
<1>1. Reason(b, r, SnapsSeen[b]) = "UNHEALTHY"
      BY DEF Whys
<1> QED
    BY <1>1, ZenonT(30) DEF Reason

LEMMA RouteSteered ==
    ASSUME RejectingPasses, SnapsInv, Next, Selected
    PROVE  /\ \A b \in Members(decision'.chain) : snaps'[b].connectivity
           /\ \A b \in DOMAIN decision'.excluded :
                decision'.excluded[b] = "UNHEALTHY" /\ snaps'[b].connectivity
                => snaps'[b].latency > 0
<1>1. PICK p \in Brokers \cup {None}, r \in Regions \cup {None} : Select(p, r)
      BY SelectedBySelect
<1>2. snaps' = SnapsSeen
      BY <1>1, SelectOutcome
<1>3. PICK s \in Orderings(Fit(r)) :
         /\ Falling(s, Scores(p, r))
         /\ decision' = [chain |-> ChainOf(s, p), preferred |-> p, region |-> r,
                         excluded |-> [b \in EnabledOnes \ Fit(r) |-> Whys(r)[b]]]
      BY <1>1, SelectOutcome, Zenon
<1>4. decision'.chain = ChainOf(s, p) /\ Members(ChainOf(s, p)) = Fit(r)
      BY <1>3, CandidatesFinite, ChainFacts
<1>5. decision'.excluded = [b \in EnabledOnes \ Fit(r) |-> Whys(r)[b]]
      BY <1>3
<1>6. config.thresholds[2] \in Nat /\ 3500 < 100 * config.thresholds[2]
      /\ 100 * config.thresholds[2] <= 6400
      BY Bars DEF SnapsInv, WorldOK
<1>7. ASSUME NEW b \in Fit(r)
      PROVE  snaps'[b].connectivity
  <2>1. SnapOK(SnapsSeen[b]) /\ ~(SnapsSeen[b].score < 100 * config.thresholds[2])
        BY CandidateFacts, SeenFacts
  <2> QED
      BY <1>2, <1>6, <2>1 DEF SnapOK
<1>8. ASSUME NEW b \in EnabledOnes, Whys(r)[b] = "UNHEALTHY", snaps'[b].connectivity
      PROVE  snaps'[b].latency > 0
  <2>1. SnapOK(SnapsSeen[b])
        BY SeenFacts
  <2>2. \/ SnapsSeen[b].status = "unhealthy"
        \/ SnapsSeen[b].score < 100 * config.thresholds[2]
        BY <1>8, UnhealthyFacts
  <2> QED
      BY <1>2, <1>6, <1>8, <2>1, <2>2 DEF SnapOK
<1> QED
    BY <1>4, <1>5, <1>7, <1>8

\* An order is never offered to a broker whose last probe failed, and one that
\* answered at once, if only to reject, is not left out as unhealthy, whatever
\* has changed since that probe.
THEOREM FaultsSteer ==
    ASSUME RejectingPasses
    PROVE  Spec => FaultsSteerRoutes
<1> DEFINE Steered ==
        Selected =>
          /\ \A b \in Members(decision'.chain) : snaps'[b].connectivity
          /\ \A b \in DOMAIN decision'.excluded :
               decision'.excluded[b] = "UNHEALTHY" /\ snaps'[b].connectivity
               => snaps'[b].latency > 0
<1>1. ASSUME SnapsInv, [Next]_vars PROVE Steered
  <2>1. CASE UNCHANGED vars
        BY <2>1 DEF vars, Selected
  <2>2. CASE Next
        BY <1>1, <2>2, RouteSteered
  <2> QED
      BY <1>1, <2>1, <2>2
<1>2. SnapsInv /\ [Next]_vars => [Steered]_vars
      BY <1>1
<1> QED
    BY <1>2, SnapsInvariant, PTL DEF Spec, FaultsSteerRoutes
=============================================================================
