SPECIFICATION Spec
CONSTANTS
  Payloads <- SomePayloads
  Texts <- SomeTexts
  Anything = Anything
INVARIANTS
  RoundTrip
  AcceptsEncodings
CHECK_DEADLOCK FALSE
