SPECIFICATION Spec
CONSTANTS
  v = v
  w = w
  Good = Good
  Bad = Bad
  None = None
  Party = {1, 2, 3}
  Commitment = {v, w}
  Own = v
  Equivocator = {3}
  Liar = {3}
  Lies <- MCCoverUps
  MayCancel = {}
INVARIANTS
  EchoesBindViews
  KeyMeansAgreement
  KeySharesVerified
CHECK_DEADLOCK FALSE
