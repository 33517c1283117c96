CONSTANTS
  c1 = c1
  c2 = c2
  NoConn = NoConn
  Conn <- MCConn
  Client <- MCClient
  ClientOf <- MCClientOf
  LevelOf <- MCAbove
  Ops = {"record_watch_replay", "status", "queue", "lease", "quit_match", "start_test", "quit_game"}
  LeaseIdle = 1
  Linger = 1
  MaxSequence = 3
  MaxAsked <- MCAsked21
  MenuReturns = FALSE

SPECIFICATION AdapterSpec

INVARIANTS
  AdapterTypeOK
  AbandonJustified
  NoneToldTooLate
  StopAnswersAll

PROPERTIES
  KeepsPromise

CHECK_DEADLOCK FALSE
