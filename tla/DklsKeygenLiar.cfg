SPECIFICATION Spec
CONSTANTS
  v = v
  w = w
  Good = Good
  Bad = Bad
  None = None
  Party = {1, 2, 3}
  Commitment = {v, w}
  Own = v
  Equivocator = {}
  Liar = {3}
  Lies <- MCLies
  MayCancel = {}
INVARIANT CulpritIsFaulty
CHECK_DEADLOCK FALSE
