SPECIFICATION AcqSpec
CONSTANTS
  a = a
  b = b
  Claimant = {a, b}
  Asks <- OneLauncher
  MaxGames = 2
INVARIANTS
  
  Reachable
  WaitedOut
  
PROPERTIES
  AcquireEnds
