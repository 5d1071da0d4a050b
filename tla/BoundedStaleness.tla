-------------------------- MODULE BoundedStaleness --------------------------
(***************************************************************************)
(* What the market cache promises whoever asks for a market: some version   *)
(* that the source served less than Bound ticks ago. How it is kept, and    *)
(* whether it is kept at all, is Cache's business.                          *)
(***************************************************************************)
EXTENDS Integers

CONSTANTS
  Requests,
  LastVersion,   \* bound on the source's updates
  Bound,         \* ticks an outdated version may still be given out
  None           \* a request that has been given nothing

Versions == 0 .. LastVersion

VARIABLES
  version,   \* what the source serves now
  gone,      \* ticks since a version was replaced, up to Bound
  seen       \* the version each request was given

vars == <<version, gone, seen>>

\* The next age of a version: only replaced versions grow old.
Aged(v) == IF v < version /\ gone[v] < Bound THEN gone[v] + 1 ELSE gone[v]

Init ==
  /\ version = 0
  /\ gone = [v \in Versions |-> 0]
  /\ seen = [r \in Requests |-> None]

Update ==
  /\ version < LastVersion
  /\ version' = version + 1
  /\ UNCHANGED <<gone, seen>>

Tick ==
  /\ gone' = [v \in Versions |-> Aged(v)]
  /\ UNCHANGED <<version, seen>>

Read(r) ==
  /\ \E v \in 0 .. version : gone[v] < Bound /\ seen' = [seen EXCEPT ![r] = v]
  /\ UNCHANGED <<version, gone>>

\* Requests that fail, start again or die with their process.
Forget ==
  /\ \E R \in SUBSET Requests :
       seen' = [r \in Requests |-> IF r \in R THEN None ELSE seen[r]]
  /\ UNCHANGED <<version, gone>>

Next == Update \/ Tick \/ Forget \/ \E r \in Requests : Read(r)

Spec == Init /\ [][Next]_vars
=============================================================================
