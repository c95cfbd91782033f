\* Two threads, a server for each pool, one of which stops; the clock passes both limits.
SPECIFICATION Spec
CONSTANTS
  Thread = {t1, t2}
  Conn = {c1, c2, c3, c4}
  ReadConf <- Readers
  WriteConf <- Writers
  None = None
  CONN_IDLE_TIME = 0
  SERVER_RECOVER_TIMEOUT = 0
  MaxTime = 1
  MaxStops = 1
SYMMETRY Symmetry
INVARIANTS
  TypeOK
  Exclusive
  Accounted
  Limited
  WritersWrite
  WrittenIfConnected
PROPERTY
  ReleasePrunes
