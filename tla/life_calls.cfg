SPECIFICATION FairSpec
CONSTANTS
  Sdks <- FiveSdks
  Tasks = {t1, t2}
  Conns = {c1, c2}
  Messages = {a, b}
  NoConn = NoConn
INVARIANTS
  NoLeak
  CloseMeansClosed
  NullUseNeedsClose
PROPERTIES
  CallsReturn
  NothingAfterClose
