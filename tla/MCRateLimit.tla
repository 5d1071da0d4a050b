---------------------------- MODULE MCRateLimit ----------------------------
(* A small instance of RateLimit: three calls of one caller and one of        *)
(* another, over the end of a minute.                                        *)
EXTENDS RateLimit, TLC

CONSTANTS c1, c2, r1, r2, r3, q1

MCCallerOf == [r \in Calls |-> IF r = q1 THEN c2 ELSE c1]
MCLimit == [c \in Callers |-> IF c = c1 THEN 2 ELSE 1]

Symmetry == Permutations({r1, r2, r3})
=============================================================================
