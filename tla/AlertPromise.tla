---------------------------- MODULE AlertPromise ----------------------------
(***************************************************************************)
(* What a subscription promises: its alerts tell, one after the other and   *)
(* from where the last one stopped, the states its market has come to, and  *)
(* end when the owner ends them or the market is resolved. An owner who     *)
(* stops them hears of one more change at most.                             *)
(*                                                                         *)
(* Pollers, copies of rows, deliveries and failures are Monitor's business. *)
(***************************************************************************)
EXTENDS Sequences, Integers

CONSTANTS
  Subs, Markets, MarketOf,
  States, Terminal,
  Rank            \* how far in a market's life a state is

VARIABLES
  shown,     \* shown[m]: the states m has been in
  wish,      \* wish[s]: what the owner of s wants, and whether s still owes an alert
  known,     \* known[s]: the state the owner was last told
  told       \* told[s]: the alerts of s

vars == <<shown, wish, known, told>>

\* "stopping": stopped by the owner with an alert under way.
MayBecome ==
  [none |-> {"none"}, watching |-> {"watching", "stopping", "stopped"},
   stopping |-> {"stopping", "stopped"}, stopped |-> {"stopped"}]

Init ==
  /\ shown = [m \in Markets |-> {"UNRESOLVED"}]
  /\ wish = [s \in Subs |-> "none"]
  /\ known = [s \in Subs |-> "none"]
  /\ told = [s \in Subs |-> << >>]

\* A market never goes back.
Show(m, x) ==
  /\ \A y \in shown[m] : Rank[y] <= Rank[x]
  /\ shown' = [shown EXCEPT ![m] = @ \cup {x}]
  /\ UNCHANGED <<wish, known, told>>

\* The baseline may be a state the market has left.
Watch(s, x) ==
  /\ wish[s] = "none"
  /\ x \in shown[MarketOf[s]]
  /\ wish' = [wish EXCEPT ![s] = "watching"]
  /\ known' = [known EXCEPT ![s] = x]
  /\ UNCHANGED <<shown, told>>

\* Owners stop their alerts; what was under way may come to nothing.
Stop ==
  /\ wish' \in [Subs -> DOMAIN MayBecome]
  /\ \A s \in Subs : wish'[s] \in MayBecome[wish[s]]
  /\ UNCHANGED <<shown, known, told>>

Tell(s, x) ==
  /\ wish[s] \in {"watching", "stopping"}
  /\ x \in shown[MarketOf[s]] \ {known[s], "UNKNOWN"}
  /\ Rank[known[s]] <= Rank[x]
  /\ told' = [told EXCEPT ![s] = Append(@, [old |-> known[s], new |-> x])]
  /\ known' = [known EXCEPT ![s] = x]
  /\ wish' = [wish EXCEPT ![s] =
                IF @ = "stopping" \/ x \in Terminal THEN "stopped" ELSE "watching"]
  /\ UNCHANGED shown

Next ==
  \/ \E m \in Markets, x \in States : Show(m, x)
  \/ Stop
  \/ \E s \in Subs, x \in States : Watch(s, x) \/ Tell(s, x)

Spec == Init /\ [][Next]_vars
=============================================================================
