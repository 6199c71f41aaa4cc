----------------------------- MODULE MCPsoSwarm -----------------------------
(* Three positions whose order is another one on each of two maps.         *)
EXTENDS PsoSwarm

CONSTANTS p1, p2, p3, m1, m2

TwoMaps ==
  [m \in {m1, m2} |->
     [p \in {p1, p2, p3} |-> CASE p = p1 -> IF m = m1 THEN 1 ELSE 3
                               [] p = p2 -> 2
                               [] p = p3 -> IF m = m1 THEN 3 ELSE 1]]
=============================================================================
