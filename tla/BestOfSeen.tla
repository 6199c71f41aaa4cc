------------------------------ MODULE BestOfSeen ------------------------------
(***************************************************************************)
(* What a population-based planner promises: while it searches it          *)
(* evaluates candidate paths, and its answer is one of the best it has     *)
(* evaluated on the map it was given.                                      *)
(***************************************************************************)
EXTENDS Naturals

CONSTANTS Positions, Maps, Fitness, NoAnswer

VARIABLES map, seen, answer

searchVars == <<map, seen, answer>>

SearchInit == map \in Maps /\ seen = {} /\ answer = NoAnswer

(* A search on some map begins with some candidates ...                    *)
Begin ==
  /\ map' \in Maps
  /\ \E candidates \in (SUBSET Positions) \ {{}} : seen' = candidates
  /\ answer' = NoAnswer

(* ... evaluates others ...                                                *)
Evaluate ==
  /\ seen # {} /\ answer = NoAnswer
  /\ \E p \in Positions : seen' = seen \cup {p}
  /\ UNCHANGED <<map, answer>>

(* ... and answers with one that none of them beats.                       *)
Answer ==
  /\ answer = NoAnswer
  /\ answer' \in {p \in seen : \A q \in seen : Fitness[map][p] >= Fitness[map][q]}
  /\ UNCHANGED <<map, seen>>

SearchSpec == SearchInit /\ [][Begin \/ Evaluate \/ Answer]_searchVars
=============================================================================
