SPECIFICATION FairSpec
CONSTANTS
  a = a
  b = b
  c = c
  d = d
  None = None
  Party = {a, b, c}
  Old = {a, b}
  New = {b, c}
  Faulty = {}
  MayCancel = {}
INVARIANT DualPartyGetsNewKey
CHECK_DEADLOCK FALSE
