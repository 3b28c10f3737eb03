SPECIFICATION FairSpec
CONSTANTS
  a = a
  b = b
  Party = {a, b}
  Faulty = {b}
  Replays = TRUE
  Threads = TRUE
  MayTimeOut = {b}
INVARIANTS
  TypeOK
  SavedOnceAndVerified
  SavedMeansNobodyFailed
PROPERTIES
  FailedIsFinal
  ImplementsBarrier
  EverybodySaves
CHECK_DEADLOCK FALSE
