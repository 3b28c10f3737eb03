SPECIFICATION FairSpec
CONSTANTS
  a = a
  b = b
  c = c
  d = d
  None = None
  Party = {a, b, c, d}
  Old = {a, b}
  New = {c, d}
  Faulty = {b}
  MayCancel = {a, c}
INVARIANTS TypeOK SharesFollowCommitments HandedOverBeforeErasure SuccessIsCollective OneOutcome
PROPERTIES ImplementsScript ErasureLeadsToDelivery EverybodyFinishes
CHECK_DEADLOCK FALSE
