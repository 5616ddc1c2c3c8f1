SPECIFICATION Spec
CONSTANTS
  Sdks <- AllSdks
  Calls = {c1, c2}
  Names = {jobs}
  NoName = NoName
  Msgs = {m1, m2}
  Quirks <- Withstood
SYMMETRY Symmetry
INVARIANTS
  OkMeansDone
  RefusedMeansUntouched
  ListIsSnapshot
CHECK_DEADLOCK FALSE
