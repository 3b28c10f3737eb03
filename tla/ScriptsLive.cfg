SPECIFICATION FairSpec
CONSTANTS
  Party <- MCParty
  Scripts <- MCScripts
  Setups <- MCLive
  MayCancel = {}
PROPERTY EverybodyFinishes
CHECK_DEADLOCK FALSE
