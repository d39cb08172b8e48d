SPECIFICATION Spec
CONSTANTS
  original = original
  repeat = repeat
  other = other
  keyless = keyless
  key = key
  payload1 = payload1
  payload2 = payload2
  NoKey = NoKey
  None = None
  Requests <- FourRequests
  KeyOf <- FourKeys
  PayloadOf <- FourPayloads
  Keys = {key}
  Payloads = {payload1, payload2}
  Codes = {c1, c2, c3}
  MaxTries = 2
  MaxCrashes = 1
INVARIANTS
  AnswersAgree
  RecordedLinkExists
PROPERTIES
  CodesAreForever
SYMMETRY CodeSymmetry
CHECK_DEADLOCK FALSE
