------------------------------ MODULE MCVerify ------------------------------
(* Small instances of Verify: two requests on one key, an agent's request.    *)
EXTENDS Verify

CONSTANTS r1, r2, a1, k

MCKeyOf == [r \in Requests |-> k]
MCSurface == [r \in Requests |-> IF r = a1 THEN "agent" ELSE "rest"]
=============================================================================
