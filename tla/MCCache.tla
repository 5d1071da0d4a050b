------------------------------ MODULE MCCache ------------------------------
(* A small instance of Cache: an edit of the outcomes, then one of the rules, *)
(* under two requests that may ask about either side.                         *)
EXTENDS Cache, TLC

MCRulesOf == [v \in Versions |-> IF v < 2 THEN "draft" ELSE "final"]
MCOutcomesOf == [v \in Versions |-> IF v = 0 THEN "two" ELSE "three"]

MCQueried == {"NO", None}

Symmetry == Permutations(Requests)
=============================================================================
