SPECIFICATION Spec
CONSTANTS
  Party <- MCParty
  Scripts <- MCScripts
  Setups <- MCRistrettoDual
  MayCancel = {}
INVARIANT ErrorHasCause
CHECK_DEADLOCK FALSE
