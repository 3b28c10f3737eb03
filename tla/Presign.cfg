SPECIFICATION FairSpec
CONSTANTS
  h1 = h1
  h2 = h2
  h3 = h3
  h4 = h4
  r1 = r1
  r2 = r2
  r3 = r3
  NoHandle = NoHandle
  Caller = {c1, c2}
  Handle = {h1, h2, h3, h4}
  Nonce = {r1, r2, r3}
  R <- MCR
  Aggregated = {h1, h2, h4}
  Entry <- MCEntry
  MayFail = {r1, r2}
  MaxCrashes = 2
INVARIANTS TypeOK NonceSignsOnce
PROPERTIES MisuseBurnsNothing ImplementsOneTimeNonce RecordedNonceSigns
