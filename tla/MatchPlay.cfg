SPECIFICATION FairMatchSpec
CONSTANTS
  p = p
  q = q
  Caller = {p, q}
  Asks <- TwoPlayers
  AfterEnd = {q}
  MaxRound = 1
  MaxDecisions = 1
  MaxDeaths = 1
INVARIANTS
  SecretUntilSettled
  SealedIsFought
  
  ResultAgrees
PROPERTIES
  PlayedStays
  WaitEnds
