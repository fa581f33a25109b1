---------------------------- MODULE MCIpManager ----------------------------
(* Model checking IpManager on small instances.                            *)
EXTENDS IpManager, TLC

\* Brokers, IPs and requests are interchangeable.
Symmetry == Permutations(Brokers) \cup Permutations(Ips) \cup Permutations(Tasks)
=============================================================================
