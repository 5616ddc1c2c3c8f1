SPECIFICATION FairSpec
CONSTANTS
  ChannelCap = 2
  BufferCap = 2
  MaxDisconnects = 2
INVARIANTS
  TypeOK
  ListSeesSends
  RefusedMeansExpired
  InOrderOrDropped
PROPERTY MainEnds
CHECK_DEADLOCK FALSE
