----------------------------- MODULE OutboxSpec -----------------------------
(***************************************************************************)
(* What the transactional outbox promises: an event that was committed     *)
(* with its business change is published at least once, or its publishing  *)
(* failed and the row says so; an event that was not committed is never    *)
(* published.                                                              *)
(***************************************************************************)
CONSTANT Events

VARIABLES
    committed, \* the events whose transaction committed
    published, \* the events that reached the bus
    failed,    \* the events of which a publish call failed
    told       \* the events whose row was settled

vars == <<committed, published, failed, told>>

Init == committed = {} /\ published = {} /\ failed = {} /\ told = {}

Commit(e) ==
    /\ e \notin committed
    /\ committed' = committed \cup {e}
    /\ UNCHANGED <<published, failed, told>>

\* A call may reach the bus and fail all the same.
Publish(e) ==
    /\ e \in committed
    /\ \/ published' = published \cup {e} /\ UNCHANGED failed
       \/ failed' = failed \cup {e} /\ UNCHANGED published
       \/ published' = published \cup {e} /\ failed' = failed \cup {e}
    /\ UNCHANGED <<committed, told>>

\* Only what was tried is settled, once for all.
Settle(S) ==
    /\ S \subseteq published \cup failed
    /\ told' = told \cup S
    /\ UNCHANGED <<committed, published, failed>>

Next == \/ \E e \in Events : Commit(e) \/ Publish(e)
        \/ \E S \in SUBSET Events : Settle(S)

Spec == Init /\ [][Next]_vars

\* Every committed event is tried, and every event that was tried is settled.
Tried(e)    == e \notin published \cup failed /\ Publish(e)
Settled(e)  == e \notin told /\ \E S \in SUBSET Events : e \in S /\ Settle(S)
Fairness    == \A e \in Events : WF_vars(Tried(e)) /\ WF_vars(Settled(e))

FairSpec == Spec /\ Fairness
=============================================================================
