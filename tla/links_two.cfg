SPECIFICATION Spec
CONSTANTS
  original = original
  repeat = repeat
  other = other
  keyless = keyless
  key = key
  payload1 = payload1
  payload2 = payload2
  NoKey = NoKey
  None = None
  Requests <- TwoRequests
  KeyOf <- TwoKeys
  PayloadOf <- TwoPayloads
  Keys = {key}
  Payloads = {payload1, payload2}
  Codes = {c1, c2}
  MaxTries = 2
  MaxCrashes = 0
INVARIANTS
  OneLinkPerKey
SYMMETRY CodeSymmetry
CHECK_DEADLOCK FALSE
