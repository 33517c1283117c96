SPECIFICATION RetrySpec
CONSTANTS
  p = p
  q = q
  Caller = {p, q}
  Asks <- Committing
  AfterEnd = {q}
  MaxRound = 1
  MaxDecisions = 1
  MaxDeaths = 1
INVARIANTS
  SealsItsRound
