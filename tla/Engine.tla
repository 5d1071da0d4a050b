------------------------------- MODULE Engine -------------------------------
(***************************************************************************)
(* The risk score: app/engine.py over the vocabulary of                    *)
(* app/risk_factors.py, the model's answer as app/llm/parser.py takes it    *)
(* and the challenge window as app/resolvers/polymarket.py reads it.        *)
(*                                                                         *)
(* A pure computation: one action audits one input, and the invariants     *)
(* compare the verdict with those of neighbouring inputs.                   *)
(***************************************************************************)
EXTENDS Integers, SequencesExt

CONSTANTS
  Foreign,      \* a code the model makes up
  Liveness,     \* the values of customLiveness, in seconds; 0: absent or unusable
  MaxFactors    \* bound on the codes the model reports

ASSUME EngineAssumption ==
  /\ Liveness \subseteq Nat /\ 0 \in Liveness
  /\ MaxFactors \in Nat

\* CONTENT_FACTORS.
Content ==
  [requires_official_source |-> 22, requires_multiple_sources |-> 22,
   subjective_or_consensus |-> 25, strict_deadline |-> 15,
   exact_entity_match |-> 15, conditional_resolution |-> 12]

Codes == DOMAIN Content

\* _STATE_COMPONENT.
StateWeight == [DISPUTED |-> 30, UNDISPUTED |-> 22, PROPOSED |-> 15]

OracleStates == {"UNRESOLVED", "PROPOSED", "UNDISPUTED", "DISPUTED", "RESOLVED", "UNKNOWN"}

-----------------------------------------------------------------------------
(* The inputs: what Gamma serves of a market, what the model answers.        *)

\* uma: the market names an UMA resolver or bond.
Market == [liveness : Liveness, uma : BOOLEAN, source : BOOLEAN, state : OracleStates]

\* The tool call's arguments. mismatches: some mismatch has a clause.
Reply == [given : {TRUE}, factors : SeqOf(Codes \cup {Foreign}, MaxFactors),
          mismatches : BOOLEAN]

\* The model is not configured, failed, or did not call the tool.
NoReply == [given |-> FALSE, factors |-> << >>, mismatches |-> FALSE]

-----------------------------------------------------------------------------
(* Normalisation.                                                            *)

NoWindow == -1
DefaultLiveness == 7200

\* Hundredths of an hour: round(seconds / 3600, 2), ties aside.
Hundredths(seconds) == (seconds * 100 + 1800) \div 3600

\* Variant: a market without UMA metadata gets the default window too.
ChallengeWindowAlways(m) ==
  Hundredths(IF m.liveness > 0 THEN m.liveness ELSE DefaultLiveness)

\* PolymarketResolver._challenge_window_hours.
ChallengeWindow(m) ==
  IF m.liveness > 0 THEN Hundredths(m.liveness)
  ELSE IF m.uma THEN Hundredths(DefaultLiveness)
  ELSE NoWindow

\* Variant: one code outside the vocabulary discards the whole list.
KnownOrNothing(codes) == IF ToSet(codes) \subseteq Codes THEN codes ELSE << >>

\* _to_analysis: codes outside the vocabulary go, repeated ones stay.
Known(codes) ==
  FoldLeft(LAMBDA kept, f : IF f \in Codes THEN Append(kept, f) ELSE kept, << >>, codes)

-----------------------------------------------------------------------------
(* Scoring. A component is a name and a weight.                              *)

Component(factor, weight) == [factor |-> factor, weight |-> weight]

\* _structural_components.
Structural(m) ==
  (IF ChallengeWindow(m) \in 0 .. 400
     THEN <<Component("tight_challenge_window", 8)>> ELSE << >>)
  \o
  (IF m.state \in DOMAIN StateWeight
     THEN <<Component(m.state, StateWeight[m.state])>> ELSE << >>)

\* Variant: mismatches are only listed, not scored.
ClausesOnly(r) ==
  LET known == Known(r.factors) IN
  [i \in 1 .. Len(known) |-> Component(known[i], Content[known[i]])]

\* _score_with_llm: the factors, or one component for mismatches without any.
Clauses(r) ==
  LET known == Known(r.factors) IN
  IF known = << >> /\ r.mismatches
    THEN <<Component("rule_mismatch", 15)>>
    ELSE [i \in 1 .. Len(known) |-> Component(known[i], Content[known[i]])]

\* _score_deterministic.
Fallback(m) ==
  IF m.source THEN <<Component("source_of_truth_mismatch", 55)>> ELSE << >>

Breakdown(m, r) ==
  (IF r.given THEN Clauses(r) ELSE Fallback(m)) \o Structural(m)

\* The weights add up.
WeightOf(components) == FoldLeft(LAMBDA sum, c : sum + c.weight, 0, components)

\* Variant: the sum is not capped.
UncappedScore(components) == WeightOf(components)

\* Variant: the sum wraps at the top of the scale.
WrappedScore(components) == WeightOf(components) % 101

ScoreOf(components) == IF WeightOf(components) > 100 THEN 100 ELSE WeightOf(components)

\* Variant: the threshold is exclusive.
ActionAbove(score) ==
  CASE score > 70 -> "ABORT_TRADE"
    [] score \in 35 .. 70 -> "CAUTION"
    [] OTHER -> "PROCEED"

\* _action_for.
ActionFor(score) ==
  CASE score >= 70 -> "ABORT_TRADE"
    [] score \in 35 .. 69 -> "CAUTION"
    [] OTHER -> "PROCEED"

\* score_market.
Verdict(m, r) ==
  LET components == Breakdown(m, r)
      score == ScoreOf(components)
  IN [score |-> score, action |-> ActionFor(score), breakdown |-> components]

-----------------------------------------------------------------------------

VARIABLES
  market,   \* the market being audited
  reply,    \* what the model said of it
  verdict   \* the response

vars == <<market, reply, verdict>>

NoMarket == [liveness |-> 0, uma |-> FALSE, source |-> FALSE, state |-> "UNKNOWN"]
NoVerdict == [score |-> 0, action |-> "PROCEED", breakdown |-> << >>]

Idle == market = NoMarket /\ reply = NoReply /\ verdict = NoVerdict

Init == Idle

Audit ==
  /\ Idle
  /\ \E m \in Market, r \in Reply \cup {NoReply} :
       /\ market' = m
       /\ reply' = r
       /\ verdict' = Verdict(m, r)

\* Nothing is kept of an audit.
Respond ==
  /\ ~Idle
  /\ market' = NoMarket
  /\ reply' = NoReply
  /\ verdict' = NoVerdict

Next == Audit \/ Respond

Spec == Init /\ [][Next]_vars

-----------------------------------------------------------------------------
(* Properties.                                                               *)

\* The response is in the range schemas.py declares for it.
TypeOK ==
  /\ market \in Market
  /\ reply.factors \in Seq(Codes \cup {Foreign})
  /\ Len(reply.factors) <= MaxFactors
  /\ verdict.score \in 0 .. 100
  /\ verdict.action \in {"PROCEED", "CAUTION", "ABORT_TRADE"}

\* engine.py:149 "Same factors + same oracle facts => same score": the order in
\* which the model names the factors, and any code it makes up in between, change
\* nothing. What is left is how often it names each.
BagDetermined ==
  LET times(f) == Cardinality({i \in DOMAIN reply.factors : reply.factors[i] = f})
      sum == MapThenSumSet(LAMBDA f : times(f) * Content[f], Codes)
             + WeightOf(Structural(market))
  IN ToSet(reply.factors) \cap Codes # {} =>
       verdict.score = IF sum > 100 THEN 100 ELSE sum

\* engine.py:160 "concrete mismatches but no classified factor still registers": a
\* reply that lists mismatches costs the market at least the lightest factor,
\* although the vocabulary may have emptied its list of factors.
MismatchRegisters == reply.mismatches => verdict.score >= 12

\* Without the model an audit aborts exactly when the market names a source and a
\* proposal is open or settling (55 and 15 meet the threshold of 70, 55 and 8 do
\* not), and a named source alone is never a PROCEED.
FallbackAborts ==
  ~reply.given =>
    /\ verdict.action = "ABORT_TRADE" <=> market.source /\ market.state \in DOMAIN StateWeight
    /\ market.source => verdict.action # "PROCEED"

\* Oracle metadata alone never blocks a trade: with clauses the model finds clean,
\* the most it can say is CAUTION, and only of a disputed market whose window is
\* known (30 and 8 pass 35; a market that names no oracle has no window).
MetadataNeverBlocks ==
  reply.given /\ ToSet(reply.factors) \cap Codes = {} /\ ~reply.mismatches =>
    /\ verdict.action # "ABORT_TRADE"
    /\ verdict.action = "CAUTION" =>
         market.state = "DISPUTED" /\ (market.uma \/ market.liveness > 0)

\* As a market goes from open to proposed to its last hours to disputed, the same
\* reading of its rules (analyze_cached keeps it meanwhile) never scores lower.
Escalation == <<"UNRESOLVED", "PROPOSED", "UNDISPUTED", "DISPUTED">>

EscalationNeverLowers ==
  \A i, j \in DOMAIN Escalation :
    i < j /\ market.state = Escalation[j] =>
      Verdict([market EXCEPT !.state = Escalation[i]], reply).score <= verdict.score
=============================================================================
