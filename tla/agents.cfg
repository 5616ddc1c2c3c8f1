SPECIFICATION Spec
CONSTANTS
  Runs = {r1, r2}
  NoMsg = NoMsg
  MaxTroubles = 1
SYMMETRY RunSymmetry
INVARIANTS
  TypeOK
  AddressFirst
  FirstIsAnswered
  AnswersInOrder
  NoPanic
CHECK_DEADLOCK FALSE
