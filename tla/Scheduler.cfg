CONSTANTS
  c1 = c1
  c2 = c2
  c3 = c3
  NoConn = NoConn
  Conn <- MCConn
  Client <- MCClient
  ClientOf <- MCClientOf
  LevelOf <- MCLevelOf
  Ops = {"record_replay_round", "lease", "start_test"}
  LeaseIdle = 1
  Linger = 1
  MaxSequence = 4

SPECIFICATION TurnsSpec

INVARIANTS
  LeaseExcludes
  
  IdleExactly
  NoneGoesTwice

PROPERTIES
  OrderKept

CHECK_DEADLOCK FALSE
