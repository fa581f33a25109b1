------------------------------ MODULE MCOrders ------------------------------
(* Model checking Orders on small instances.                               *)
EXTENDS Orders, TLC

\* Orders, brokers and the tasks of one kind are interchangeable.
Symmetry == Permutations(Orders) \cup Permutations(Brokers)
              \cup Permutations(Placers) \cup Permutations(Cancellers)
              \cup Permutations(Scanners)
=============================================================================
