SPECIFICATION FairSpec
CONSTANTS
  m1 = m1
  m2 = m2
  m3 = m3
  Msgs = {m1, m2, m3}
  Subs = {s1}
  Sdks <- AllSdks
  LevelOf <- MCLevelOf
  BodyOf <- MCBodyOf
  None = None
  Main = Main
  MaxReconnects = 1
INVARIANTS
  NothingSkipped
  FirstInOrder
  OncePerRegistration
  LoopsSurvive
PROPERTIES
  CloseReturns
  StoppedLoopsEnd
  ImplementsFairFeed
