SPECIFICATION Spec
CONSTANTS
  m1 = m1
  m2 = m2
  m3 = m3
  Msgs = {m1, m3}
  Subs = {s1}
  Sdks <- RustOnly
  LevelOf <- MCLevelOf
  BodyOf <- MCBodyOf
  None = None
  Main = Main
  MaxReconnects = 0
PROPERTY CloseIsQuiet
