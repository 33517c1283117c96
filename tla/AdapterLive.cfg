CONSTANTS
  c1 = c1
  c2 = c2
  NoConn = NoConn
  Conn <- MCConn
  Client <- MCClient
  ClientOf <- MCClientOf
  LevelOf <- MCEqual
  Ops = {"record_replay_round", "lease", "start_test"}
  LeaseIdle = 1
  Linger = 1
  MaxSequence = 3
  MaxAsked <- MCAsked21
  MenuReturns = TRUE

SPECIFICATION FairSpec

PROPERTIES
  TurnAtMenu
  EveryTurnComes

CHECK_DEADLOCK FALSE
