------------------------------ MODULE MCGateway ------------------------------
(* Gateway for TLC: no property tells the requests apart.                  *)
EXTENDS Gateway, TLC

Symmetry == Permutations(Tasks)
=============================================================================
