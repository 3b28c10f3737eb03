SPECIFICATION FairSpec
CONSTANTS
  v = v
  w = w
  Good = Good
  Bad = Bad
  None = None
  Party = {1, 2, 3}
  Commitment = {v, w}
  Own = v
  Equivocator = {}
  Liar = {3}
  Lies <- MCLies
  MayCancel = {1}
INVARIANT EchoesAreComplete
PROPERTY EverybodyGetsKey
CHECK_DEADLOCK FALSE
