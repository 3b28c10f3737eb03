SPECIFICATION Spec
CONSTANTS
  Party <- MCParty
  Scripts <- MCScripts
  Setups <- MCSetups
  MayCancel = {1}
INVARIANTS
  TypeOK
  ErrorHasCause
  SoundResult
  RevealAfterCommit
  Agreement
  NoBlockedSend
  OneOutcome
  HandedOver
  NeverStuck
CHECK_DEADLOCK FALSE
