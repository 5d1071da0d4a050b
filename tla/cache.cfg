CONSTANTS
  Requests = {r1, r2}
  Urls = {market}
  LastVersion = 2
  Queried <- MCQueried
  RulesOf <- MCRulesOf
  OutcomesOf <- MCOutcomesOf
  MarketTTL = 2
  EvalTTL = 1
  FetchTime = 1
  WorkTime = 1
  None = None
SPECIFICATION Spec
INVARIANTS TypeOK AnalysisAnswers
PROPERTIES OutcomesFresh Implements
SYMMETRY Symmetry
